---- MODULE Spec2Model ----
(***************************************************************************)
(* EV fleet charging optimizer: the greedy scheduler (optimizer.ts), its   *)
(* metrics aggregator and the tabular Q-learning agent                     *)
(* (reinforcementLearning.ts).                                             *)
(*                                                                         *)
(* JavaScript numbers are modelled as exact rationals [n, d] with d > 0;   *)
(* d = 0 encodes the IEEE specials: 1/0 = Infinity, -1/0 = -Infinity and   *)
(* 0/0 = NaN.  Dates are integer milliseconds counted from a local         *)
(* midnight, so the hour of day of t is (t \div MsPerHour) % 24.           *)
(***************************************************************************)
EXTENDS Integers, Sequences, FiniteSets, TLC

VARIABLES
    now,          \* the wall clock (Date.now()), ms since a local midnight
    fleet,        \* the ElectricVehicle[] handed to the optimizer
    stations,     \* the ChargingStation[] handed to the optimizer
    pricing,      \* the EnergyPricing[] table (24 entries, index hour + 1)
    plans,        \* result of the latest optimizeChargingSchedule call
    planAt,       \* clock instant of that call (-1: none yet)
    prevAt,       \* clock instant of the call before it (-1: none yet)
    runs,         \* number of optimizeChargingSchedule calls made
    metricsIn,    \* arguments of the latest calculateOptimizationMetrics call
    metricsOut,   \* what that call returned
    priorityOut,  \* the latest calculatePriority call and its result
    qTable,       \* the agent's Map<stateKey, Map<actionKey, QValue>>
    rewardHistory,\* the agent's list of the rewards it learned from
    agentOut,     \* the latest agent call and its result
    metrics,      \* the data service's stored OptimizationMetrics
    alerts,       \* the data service's alert list
    lastUpdated,  \* the data service's lastUpdated instant
    updates,      \* number of manualAssignment and simulateUpdates calls made
    callOut       \* the latest direct call of a helper function and its result

vars == <<now, fleet, stations, pricing, plans, planAt, prevAt, runs,
          metricsIn, metricsOut, priorityOut, qTable, rewardHistory, agentOut,
          metrics, alerts, lastUpdated, updates, callOut>>

inputVars == <<fleet, stations, pricing>>

runVars == <<plans, planAt, prevAt, runs>>

metricsVars == <<metricsIn, metricsOut>>

agentVars == <<qTable, rewardHistory, agentOut>>

serviceVars == <<metrics, alerts, lastUpdated, updates>>

-----------------------------------------------------------------------------
(* Bounds of the model *)

MaxFleet == 2
MaxStations == 2
MaxRuns == 2
MaxTicks == 1

-----------------------------------------------------------------------------
(* JavaScript number arithmetic on exact rationals *)

\* F applied to the value of v (of v and w): the argument is evaluated once,
\* as a JavaScript call evaluates its arguments before the body runs
With(v, F(_)) == CHOOSE r \in {F(x) : x \in {v}} : TRUE

With2(v, w, F(_, _)) == CHOOSE r \in {F(x, y) : x \in {v}, y \in {w}} : TRUE

Abs(x) == IF x < 0 THEN -x ELSE x

Sign(x) == IF x > 0 THEN 1 ELSE IF x < 0 THEN -1 ELSE 0

RECURSIVE GCD(_, _)
GCD(a, b) == IF b = 0 THEN a ELSE With(a % b, LAMBDA r : GCD(b, r))

\* The number n/d in lowest terms with a positive denominator; x/0 is
\* Infinity, -Infinity or NaN by the sign of x.
Num(n, d) ==
    With2(n, d, LAMBDA p, q :
        IF q = 0 THEN [n |-> Sign(p), d |-> 0]
        ELSE With(GCD(Abs(p), Abs(q)), LAMBDA g :
                 [n |-> Sign(q) * (p \div g), d |-> Abs(q) \div g]))

I(i) == [n |-> i, d |-> 1]

Infinity == [n |-> 1, d |-> 0]

NaN == [n |-> 0, d |-> 0]

IsNaN(x) == x.d = 0 /\ x.n = 0

IsFinite(x) == x.d # 0

Neg(x) == With(x, LAMBDA a : [n |-> -a.n, d |-> a.d])

Add(x, y) ==
    With2(x, y, LAMBDA a, b :
        IF a.d = 0 /\ b.d = 0 THEN (IF a = b THEN a ELSE NaN)
        ELSE IF a.d = 0 THEN a
        ELSE IF b.d = 0 THEN b
        ELSE With(GCD(a.d, b.d), LAMBDA g :
                 Num(a.n * (b.d \div g) + b.n * (a.d \div g), (a.d \div g) * b.d)))

Sub(a, b) == Add(a, Neg(b))

Mul(x, y) ==
    With2(x, y, LAMBDA a, b :
        IF a.d = 0 \/ b.d = 0 THEN [n |-> Sign(a.n * b.n), d |-> 0]
        ELSE With2(GCD(Abs(a.n), b.d), GCD(Abs(b.n), a.d), LAMBDA g1, g2 :
                 Num((a.n \div g1) * (b.n \div g2), (a.d \div g2) * (b.d \div g1))))

\* a + b and a * b of finite numbers, not brought to lowest terms (the sums
\* of a loop keep one denominator); Canon gives the lowest terms
Plus(x, y) ==
    With2(x, y, LAMBDA a, b :
        IF a.d = b.d THEN [n |-> a.n + b.n, d |-> a.d]
        ELSE [n |-> a.n * b.d + b.n * a.d, d |-> a.d * b.d])

Times(x, y) == With2(x, y, LAMBDA a, b : [n |-> a.n * b.n, d |-> a.d * b.d])

Canon(x) == With(x, LAMBDA a : Num(a.n, a.d))

\* a / b; a finite number over 0 is +-Infinity, 0/0 and Infinity/Infinity NaN
\* (the sign of a zero divisor is not tracked: every zero is +0).
Div(x, y) ==
    With2(x, y, LAMBDA a, b :
        IF b.d = 0 THEN (IF a.d = 0 \/ b.n = 0 THEN NaN ELSE I(0))
        ELSE IF a.d = 0 THEN [n |-> a.n * (IF b.n < 0 THEN -1 ELSE 1), d |-> 0]
        ELSE IF b.n = 0 THEN [n |-> Sign(a.n), d |-> 0]
        ELSE Mul(a, [n |-> Sign(b.n) * b.d, d |-> Abs(b.n)]))

\* a < b; false as soon as one side is NaN
Less(x, y) ==
    With2(x, y, LAMBDA a, b :
        IF IsNaN(a) \/ IsNaN(b) THEN FALSE
        ELSE IF a.d = b.d THEN a.n < b.n
        ELSE IF a.d = 0 THEN a.n < 0
        ELSE IF b.d = 0 THEN b.n > 0
        ELSE a.n * b.d < b.n * a.d)

Leq(x, y) == With2(x, y, LAMBDA a, b : ~IsNaN(a) /\ ~IsNaN(b) /\ ~Less(b, a))

\* Math.min / Math.max of two numbers (NaN if either is NaN)
MathMin(x, y) ==
    With2(x, y, LAMBDA a, b :
        IF IsNaN(a) \/ IsNaN(b) THEN NaN ELSE IF Less(b, a) THEN b ELSE a)

MathMax(x, y) ==
    With2(x, y, LAMBDA a, b :
        IF IsNaN(a) \/ IsNaN(b) THEN NaN ELSE IF Less(a, b) THEN b ELSE a)

\* Math.ceil and Math.floor of a finite number, as integers
CeilInt(x) == With(x, LAMBDA a : -((-a.n) \div a.d))

FloorInt(x) == With(x, LAMBDA a : a.n \div a.d)

\* Math.ceil as a number: Infinity, -Infinity and NaN are their own ceiling
MathCeil(x) == With(x, LAMBDA a : IF a.d = 0 THEN a ELSE I(CeilInt(a)))

\* Math.round: the nearest integer, halves towards +Infinity
MathRound(x) ==
    With(x, LAMBDA a : IF a.d = 0 THEN a ELSE I((2 * a.n + a.d) \div (2 * a.d)))

\* Math.round(x * k) / k
RoundTo(x, k) == Div(MathRound(Mul(x, I(k))), I(k))

\* Math.round(Math.sqrt(n) * 10) / 10 for an integer n >= 0: with r the
\* integer part of the root, the tenths t in 10 r .. 10 r + 10 that satisfy
\* (t - 1/2)^2 <= 100 n < (t + 1/2)^2 (t = 0 has no lower side)
RoundSqrt10(n) ==
    With(n, LAMBDA m :
        With(CHOOSE r \in 0..m : r * r <= m /\ m < (r + 1) * (r + 1), LAMBDA r :
            Num(CHOOSE t \in (10 * r)..(10 * r + 10) :
                    /\ (t = 0 \/ (2 * t - 1) * (2 * t - 1) <= 400 * m)
                    /\ 400 * m < (2 * t + 1) * (2 * t + 1),
                10)))

-----------------------------------------------------------------------------
(* Dates *)

MsPerHour == 1000 * 60 * 60

MsPerDay == 24 * MsPerHour

\* Date.prototype.getHours
getHours(t) == (t \div MsPerHour) % 24

\* d.setHours(h, 0, 0, 0)
setHours(t, h) == (t \div MsPerDay) * MsPerDay + h * MsPerHour

\* d.setDate(d.getDate() + 1)
nextDay(t) == t + MsPerDay

\* (a.getTime() - b) / (1000 * 60 * 60)
hoursBetween(a, b) == Num(a - b, MsPerHour)

\* new Date(t + hours * 60 * 60 * 1000): the time value is truncated to an
\* integer number of milliseconds (hours is finite and the sum positive, so
\* the truncation is the floor, for negative hours too)
addHours(t, hours) == t + FloorInt(Mul(hours, I(MsPerHour)))

-----------------------------------------------------------------------------
(* mockData.ts: the price table *)

\* a price of c hundredths (Math.round(price * 100) / 100), kept over 100
Price(c) == [n |-> c, d |-> 100]

\* generateEnergyPricing: off-peak 0.08 for hours 22..5, peak 0.20 for hours
\* 14..19, shoulder 0.12 otherwise (the random demand field is not modelled)
\* the price table whose off-peak test is a conjunction (hour >= 22 and
\* hour < 6), which no hour satisfies
generateEnergyPricingNoNight ==
    [k \in 1..24 |->
        IF k - 1 >= 14 /\ k - 1 < 20
          THEN [hour |-> k - 1, price |-> Price(20), period |-> "peak"]
          ELSE [hour |-> k - 1, price |-> Price(12), period |-> "shoulder"]]

generateEnergyPricing ==
    [k \in 1..24 |->
        LET hour == k - 1
        IN  IF hour >= 22 \/ hour < 6
              THEN [hour |-> hour, price |-> Price(8), period |-> "off_peak"]
            ELSE IF hour >= 14 /\ hour < 20
              THEN [hour |-> hour, price |-> Price(20), period |-> "peak"]
            ELSE [hour |-> hour, price |-> Price(12), period |-> "shoulder"]]

-----------------------------------------------------------------------------
(* optimizer.ts *)

\* calculateDistance, squared: Math.sqrt is strictly increasing on the grid's
\* integers, so comparing squares is comparing distances; the root is taken
\* where the distance is rounded into the plan (RoundSqrt10).
calculateDistance(loc1, loc2) ==
    LET dx == loc1.x - loc2.x
        dy == loc1.y - loc2.y
    IN  dx * dx + dy * dy

\* the cost model that bills the whole requested energy in every bucket
calculateChargingCostWholeEnergy(energyAmount, startHour, durationHours, table) ==
    With(CeilInt(durationHours), LAMBDA hoursToCharge :
        LET RECURSIVE loop(_, _)
            loop(i, totalCost) ==
                IF i < hoursToCharge
                  THEN With2(i + 1,
                             Plus(totalCost,
                                  Times(energyAmount,
                                        table[((startHour + i) % 24) + 1].price)),
                             LAMBDA j, cost : loop(j, cost))
                  ELSE totalCost
        IN  Canon(loop(0, I(0))))

calculateChargingCost(energyAmount, startHour, durationHours, table) ==
    With2(CeilInt(durationHours),
          MathMin(Div(energyAmount, durationHours), energyAmount),
          LAMBDA hoursToCharge, energyThisHour :
              LET RECURSIVE loop(_, _)
                  loop(i, totalCost) ==
                      IF i < hoursToCharge
                        THEN With2(i + 1,
                                   Plus(totalCost,
                                        Times(energyThisHour,
                                              table[((startHour + i) % 24) + 1].price)),
                                   LAMBDA j, cost : loop(j, cost))
                        ELSE totalCost
              IN  Canon(loop(0, I(0))))

\* calculatePriority with the first threshold off by one (soc <= 30)
calculatePriorityInclusive(vehicle, t) ==
    IF vehicle.soc <= 30 THEN "high"
    ELSE IF vehicle.soc < 60 /\ Len(vehicle.trip_schedule) > 0 THEN "medium"
    ELSE "low"

calculatePriority(vehicle, t) ==
    IF /\ vehicle.soc < 30
       /\ Len(vehicle.trip_schedule) > 0
       /\ Less(hoursBetween(vehicle.trip_schedule[1].departure, t), I(6))
      THEN "high"
    ELSE IF vehicle.soc < 30 THEN "high"
    ELSE IF vehicle.soc < 60 /\ Len(vehicle.trip_schedule) > 0 THEN "medium"
    ELSE "low"

\* the window search that lets a later hour of equal cost win (<=)
findOptimalChargingWindowLastWins(vehicle, durationHours, table, t) ==
    LET currentHour == getHours(t)
        urgent ==
            /\ Len(vehicle.trip_schedule) > 0
            /\ Less(hoursBetween(vehicle.trip_schedule[1].departure, t),
                    Add(durationHours, I(2)))
        RECURSIVE scan(_, _, _)
        scan(hour, minCost, optimalHour) ==
            IF hour < currentHour + 24
              THEN With2(hour % 24,
                         calculateChargingCost(I(1), hour % 24, durationHours, table),
                         LAMBDA actualHour, cost :
                             IF Leq(cost, minCost)
                               THEN scan(hour + 1, cost, actualHour)
                               ELSE scan(hour + 1, minCost, optimalHour))
              ELSE optimalHour
    IN  IF urgent THEN currentHour ELSE scan(currentHour, Infinity, currentHour)

findOptimalChargingWindow(vehicle, durationHours, table, t) ==
    LET currentHour == getHours(t)
        urgent ==
            /\ Len(vehicle.trip_schedule) > 0
            /\ Less(hoursBetween(vehicle.trip_schedule[1].departure, t),
                    Add(durationHours, I(2)))
        RECURSIVE scan(_, _, _)
        scan(hour, minCost, optimalHour) ==
            IF hour < currentHour + 24
              THEN With2(hour % 24,
                         calculateChargingCost(I(1), hour % 24, durationHours, table),
                         LAMBDA actualHour, cost :
                             IF Less(cost, minCost)
                               THEN scan(hour + 1, cost, actualHour)
                               ELSE scan(hour + 1, minCost, optimalHour))
              ELSE optimalHour
    IN  IF urgent THEN currentHour ELSE scan(currentHour, Infinity, currentHour)

\* the filter without its status test
needsChargeAnyStatus(v) == v.soc < 80

\* the filter of lines 790-792
needsCharge(v) == v.soc < 80 /\ v.status # "maintenance" /\ v.status # "in_use"

priorityOrder(p) == IF p = "high" THEN 3 ELSE IF p = "medium" THEN 2 ELSE 1

\* the vehicles left in fleet order, as if the sort were missing
sortByPriorityUnsorted(vs, t) == vs

\* vehiclesNeedingCharge.sort(...) with the comparator
\* priorityOrder[b] - priorityOrder[a]; Array.prototype.sort is stable, so
\* the result is the high vehicles, then the medium, then the low ones, each
\* group in its original order.
sortByPriority(vs, t) ==
    LET tier(p) == SelectSeq(vs, LAMBDA v : calculatePriority(v, t) = p)
    IN  tier("high") \o tier("medium") \o tier("low")

\* the energy to reach 80 % instead of the target
energyNeededTo80(vehicle) == Num(vehicle.battery_capacity * (80 - vehicle.soc), 100)

\* line 808: energy to reach targetSoC = 90
energyNeeded(vehicle) == Num(vehicle.battery_capacity * (90 - vehicle.soc), 100)

\* the nearest-station loop without its reservation test
isAssignedNever(stationAssignments, station_id) == FALSE

\* line 818: stationAssignments.has(station.station_id)
isAssigned(stationAssignments, station_id) ==
    \E a \in stationAssignments : a[1] = station_id

\* the nearest-station loop in which a later station of equal distance wins
nearestStationLastWins(vehicle, availableStations, stationAssignments) ==
    LET RECURSIVE walk(_, _, _)
        walk(k, nearest, minDistance) ==
            IF k > Len(availableStations) THEN nearest
            ELSE LET station == availableStations[k]
                     distance == calculateDistance(vehicle.location, station.location)
                 IN  IF isAssigned(stationAssignments, station.station_id)
                       THEN walk(k + 1, nearest, minDistance)
                     ELSE IF nearest = 0 \/ distance <= minDistance
                       THEN walk(k + 1, k, distance)
                       ELSE walk(k + 1, nearest, minDistance)
    IN  walk(1, 0, 0)

\* lines 813-826: index in availableStations of the nearest station that is
\* not yet assigned (0: none); a later station replaces the candidate only
\* when strictly nearer
nearestStation(vehicle, availableStations, stationAssignments) ==
    LET RECURSIVE walk(_, _, _)
        walk(k, nearest, minDistance) ==
            IF k > Len(availableStations) THEN nearest
            ELSE LET station == availableStations[k]
                     distance == calculateDistance(vehicle.location, station.location)
                 IN  IF isAssigned(stationAssignments, station.station_id)
                       THEN walk(k + 1, nearest, minDistance)
                     ELSE IF nearest = 0 \/ distance < minDistance
                       THEN walk(k + 1, k, distance)
                       ELSE walk(k + 1, nearest, minDistance)
    IN  walk(1, 0, 0)

\* lines 855-857: the start of the session
\* the start time without the roll to the next day
startTimeOfSameDay(priority, optimalStartHour, t) ==
    IF priority = "high" THEN t ELSE setHours(t, optimalStartHour)

startTimeOf(priority, optimalStartHour, t) ==
    LET rolled == IF optimalStartHour < getHours(t) /\ priority # "high"
                    THEN nextDay(t) ELSE t
    IN  IF priority = "high" THEN t ELSE setHours(rolled, optimalStartHour)

\* lines 833-869: the plan of one vehicle on one station
makePlan(vehicle, station, table, t) ==
    LET effectiveChargingRate ==
            IF station.max_power < vehicle.charging_speed
              THEN station.max_power ELSE vehicle.charging_speed
    IN  With2(energyNeeded(vehicle),
              Div(energyNeeded(vehicle), I(effectiveChargingRate)),
              LAMBDA energy, chargingDurationHours :
        With2(calculatePriority(vehicle, t),
              findOptimalChargingWindow(vehicle, chargingDurationHours, table, t),
              LAMBDA priority, optimalStartHour :
        With(startTimeOf(priority, optimalStartHour, t),
             LAMBDA startTime :
                 [vehicle_id |-> vehicle.vehicle_id,
                  station_id |-> station.station_id,
                  start_time |-> startTime,
                  end_time |-> addHours(startTime, chargingDurationHours),
                  energy_to_charge |-> RoundTo(energy, 10),
                  estimated_cost |->
                      RoundTo(calculateChargingCost(energy, optimalStartHour,
                                                    chargingDurationHours, table), 100),
                  priority |-> priority,
                  distance_to_station |->
                      RoundSqrt10(calculateDistance(vehicle.location,
                                                    station.location))])))

\* a reservation that also writes available = false on the caller's station
markAssignedOnStation(run, station_id, vehicle_id) ==
    [run EXCEPT !.stationAssignments = @ \cup {<<station_id, vehicle_id>>},
                !.stations = [k \in DOMAIN @ |->
                                 IF @[k].station_id = station_id
                                   THEN [@[k] EXCEPT !.available = FALSE]
                                   ELSE @[k]]]

\* a reservation that also writes occupied_by on the caller's station
markAssignedOccupying(run, station_id, vehicle_id) ==
    [run EXCEPT !.stationAssignments = @ \cup {<<station_id, vehicle_id>>},
                !.stations = [k \in DOMAIN @ |->
                                 IF @[k].station_id = station_id
                                   THEN [@[k] EXCEPT !.occupied_by = vehicle_id]
                                   ELSE @[k]]]

\* lines 871-872: stationAssignments.set(station_id, vehicle_id). The
\* reservation lives in the run's own Map: no station object is written.
markAssigned(run, station_id, vehicle_id) ==
    [run EXCEPT !.stationAssignments = @ \cup {<<station_id, vehicle_id>>}]

\* The call's effect: the returned plans, and the argument arrays as the
\* call leaves them (fleet.filter and stations.filter build new arrays, the
\* sort works on the filtered copy).
optimizeChargingSchedule(fleetArg, stationsArg, table, t) ==
    With2(SelectSeq(stationsArg, LAMBDA s : s.available),
          sortByPriority(SelectSeq(fleetArg, needsCharge), t),
          LAMBDA availableStations, sortedVehicles :
        LET RECURSIVE loop(_, _)
            loop(i, acc) ==
                IF i > Len(sortedVehicles) THEN acc
                ELSE With2(sortedVehicles[i], acc, LAMBDA vehicle, run :
                     IF ~Less(I(0), energyNeeded(vehicle)) THEN loop(i + 1, run)
                     ELSE With(nearestStation(vehicle, availableStations,
                                              run.stationAssignments),
                               LAMBDA k :
                          IF k = 0 THEN loop(i + 1, run)
                          ELSE With(availableStations[k], LAMBDA station :
                               loop(i + 1,
                                    markAssigned(
                                        [run EXCEPT !.plans =
                                            Append(@, makePlan(vehicle, station, table, t))],
                                        station.station_id, vehicle.vehicle_id)))))
        IN  loop(1, [plans |-> <<>>, stationAssignments |-> {},
                     fleet |-> fleetArg, stations |-> stationsArg]))

\* the all-zero snapshot of lines 887-896
zeroMetrics ==
    [total_energy_cost |-> I(0), average_charging_time |-> I(0),
     station_utilization |-> I(0), vehicles_optimized |-> I(0),
     co2_saved |-> I(0), cost_savings |-> I(0)]

\* reduce((sum, plan) => sum + f(plan), 0)
RECURSIVE sumOver(_, _, _)
sumOver(ps, f(_), k) == IF k > Len(ps) THEN I(0) ELSE Add(f(ps[k]), sumOver(ps, f, k + 1))

\* Math.max(...pricing.map(p => p.price)); -Infinity for an empty table
RECURSIVE maxPrice(_, _)
maxPrice(table, k) ==
    IF k > Len(table) THEN Neg(Infinity)
    ELSE MathMax(table[k].price, maxPrice(table, k + 1))

\* Lines 898-933, the aggregation. The outcome of a call: error is "none"
\* when the function returns, and then snapshot is the one-element list of
\* what it returns. No statement of the function throws on a number; reading
\* .period of a missing table entry (line 916, a table that lacks the plan's
\* start hour) is a TypeError.
aggregateMetrics(plansArg, stationsArg, table) ==
    IF \E k \in 1..Len(plansArg) :
           getHours(plansArg[k].start_time) + 1 \notin DOMAIN table
      THEN [error |-> "TypeError", snapshot |-> <<>>]
    ELSE
    LET totalCost == sumOver(plansArg, LAMBDA p : p.estimated_cost, 1)
        totalChargingTime ==
            sumOver(plansArg, LAMBDA p : hoursBetween(p.end_time, p.start_time), 1)
        avgChargingTime == Div(totalChargingTime, I(Len(plansArg)))
        usedStations == Cardinality({plansArg[k].station_id : k \in 1..Len(plansArg)})
        stationUtilization == Mul(Div(I(usedStations), I(Len(stationsArg))), I(100))
        co2Saved ==
            sumOver(plansArg,
                    LAMBDA p : IF table[getHours(p.start_time) + 1].period = "off_peak"
                                 THEN Mul(p.energy_to_charge, Num(1, 2)) ELSE I(0), 1)
        peakPrice == maxPrice(table, 1)
        totalEnergyCharged == sumOver(plansArg, LAMBDA p : p.energy_to_charge, 1)
        peakCost == Mul(totalEnergyCharged, peakPrice)
        costSavings == Sub(peakCost, totalCost)
    IN  [error |-> "none",
         snapshot |-> <<[total_energy_cost |-> RoundTo(totalCost, 100),
                         average_charging_time |-> RoundTo(avgChargingTime, 100),
                         station_utilization |-> RoundTo(stationUtilization, 10),
                         vehicles_optimized |-> I(Len(plansArg)),
                         co2_saved |-> RoundTo(co2Saved, 10),
                         cost_savings |-> RoundTo(costSavings, 100)]>>]

\* the function without the early return of lines 887-896
metricsWithoutEarlyReturn(plansArg, stationsArg, table) ==
    aggregateMetrics(plansArg, stationsArg, table)

calculateOptimizationMetrics(plansArg, stationsArg, table) ==
    IF Len(plansArg) = 0 THEN [error |-> "none", snapshot |-> <<zeroMetrics>>]
    ELSE aggregateMetrics(plansArg, stationsArg, table)

-----------------------------------------------------------------------------
(* reinforcementLearning.ts *)

learningRate == Num(1, 10)

discountFactor == Num(95, 100)

\* new Map(): a Map is a function on the keys it holds
emptyMap == <<>>

\* The key is the tuple of the four buckets the template string joins.
stateToKey(state) ==
    LET hourBucket == state.hour \div 4
        socBucket == state.vehicleSoC \div 20
        priceBucket == IF Less(Num(15, 100), state.energyPrice) THEN "high"
                       ELSE IF Less(Num(10, 100), state.energyPrice) THEN "med"
                       ELSE "low"
        availBucket == IF Less(Num(7, 10), state.stationAvailability) THEN "high"
                       ELSE IF Less(Num(4, 10), state.stationAvailability) THEN "med"
                       ELSE "low"
    IN  <<hourBucket, socBucket, priceBucket, availBucket>>

actionToKey(action) == <<action.shouldCharge, action.targetSoC, action.urgency>>

\* getQValue reads through the table and creates what it does not find: the
\* state's Map, then the action's entry with value 0 and visits 0. The
\* result is the table as the call leaves it and the value read.
getQValue(table, state, action) ==
    With2(stateToKey(state), actionToKey(action), LAMBDA stateKey, actionKey :
        With(IF stateKey \in DOMAIN table THEN table
             ELSE table @@ (stateKey :> emptyMap), LAMBDA hasState :
            With(IF actionKey \in DOMAIN hasState[stateKey] THEN hasState
                 ELSE [hasState EXCEPT ![stateKey] =
                          @ @@ (actionKey :> [state |-> stateKey, action |-> actionKey,
                                              value |-> I(0), visits |-> 0])],
                 LAMBDA hasAction :
                     [table |-> hasAction,
                      value |-> hasAction[stateKey][actionKey].value])))

\* the nine charging actions, then the one that does not charge
getPossibleActions(state) ==
    << [shouldCharge |-> TRUE, targetSoC |-> 80, urgency |-> "low"],
       [shouldCharge |-> TRUE, targetSoC |-> 80, urgency |-> "medium"],
       [shouldCharge |-> TRUE, targetSoC |-> 80, urgency |-> "high"],
       [shouldCharge |-> TRUE, targetSoC |-> 90, urgency |-> "low"],
       [shouldCharge |-> TRUE, targetSoC |-> 90, urgency |-> "medium"],
       [shouldCharge |-> TRUE, targetSoC |-> 90, urgency |-> "high"],
       [shouldCharge |-> TRUE, targetSoC |-> 100, urgency |-> "low"],
       [shouldCharge |-> TRUE, targetSoC |-> 100, urgency |-> "medium"],
       [shouldCharge |-> TRUE, targetSoC |-> 100, urgency |-> "high"],
       [shouldCharge |-> FALSE, targetSoC |-> 0, urgency |-> "low"] >>

\* Math.max(...nextActions.map(a => this.getQValue(nextState, a))): the
\* reads happen in the order of the list, each on the table the last left
RECURSIVE maxQFrom(_, _, _, _, _)
maxQFrom(table, state, actions, k, best) ==
    IF k > Len(actions) THEN [table |-> table, value |-> best]
    ELSE With(getQValue(table, state, actions[k]), LAMBDA read :
             maxQFrom(read.table, state, actions, k + 1, MathMax(best, read.value)))

\* updateQValue that counts a visit only for an entry it has visited before
updateQValueFirstVisitLost(table, state, action, reward, nextState) ==
    With2(stateToKey(state), actionToKey(action), LAMBDA stateKey, actionKey :
        With(maxQFrom(getQValue(table, state, action).table, nextState,
                      getPossibleActions(nextState), 1, Neg(Infinity)), LAMBDA next :
            [next.table EXCEPT ![stateKey][actionKey].visits =
                IF stateKey \in DOMAIN table /\ actionKey \in DOMAIN table[stateKey]
                  THEN @ + 1 ELSE @]))

\* updateQValue that adds the next state's best value undiscounted
updateQValueUndiscounted(table, state, action, reward, nextState) ==
    With2(stateToKey(state), actionToKey(action), LAMBDA stateKey, actionKey :
        With(getQValue(table, state, action), LAMBDA current :
            With(maxQFrom(current.table, nextState, getPossibleActions(nextState),
                          1, Neg(Infinity)), LAMBDA next :
                With(Add(current.value,
                         Mul(learningRate,
                             Sub(Add(reward, next.value), current.value))), LAMBDA newQ :
                    [next.table EXCEPT ![stateKey][actionKey].value = newQ,
                                       ![stateKey][actionKey].visits = @ + 1]))))

updateQValue(table, state, action, reward, nextState) ==
    With2(stateToKey(state), actionToKey(action), LAMBDA stateKey, actionKey :
        With(getQValue(table, state, action), LAMBDA current :
            With(maxQFrom(current.table, nextState, getPossibleActions(nextState),
                          1, Neg(Infinity)), LAMBDA next :
                With(Add(current.value,
                         Mul(learningRate,
                             Sub(Add(reward, Mul(discountFactor, next.value)),
                                 current.value))), LAMBDA newQ :
                    [next.table EXCEPT ![stateKey][actionKey].value = newQ,
                                       ![stateKey][actionKey].visits = @ + 1]))))

\* the exploitation loop in which a later action of equal value wins (>=)
RECURSIVE bestFromLastWins(_, _, _, _, _, _)
bestFromLastWins(table, state, actions, k, bestAction, bestValue) ==
    IF k > Len(actions) THEN [table |-> table, action |-> bestAction]
    ELSE With(getQValue(table, state, actions[k]), LAMBDA read :
             IF Leq(bestValue, read.value)
               THEN bestFromLastWins(read.table, state, actions, k + 1, actions[k],
                                     read.value)
               ELSE bestFromLastWins(read.table, state, actions, k + 1, bestAction,
                                     bestValue))

\* The exploitation loop of selectAction: the first action is read once to
\* start with and once more by forEach; a later action wins on value > best.
RECURSIVE bestFrom(_, _, _, _, _, _)
bestFrom(table, state, actions, k, bestAction, bestValue) ==
    IF k > Len(actions) THEN [table |-> table, action |-> bestAction]
    ELSE With(getQValue(table, state, actions[k]), LAMBDA read :
             IF Less(bestValue, read.value)
               THEN bestFrom(read.table, state, actions, k + 1, actions[k], read.value)
               ELSE bestFrom(read.table, state, actions, k + 1, bestAction, bestValue))

\* selectAction; explore is the outcome of Math.random() < epsilon and index
\* that of Math.floor(Math.random() * actions.length)
selectAction(table, state, explore, index) ==
    LET actions == getPossibleActions(state)
    IN  IF explore THEN [table |-> table, action |-> actions[index + 1]]
        ELSE With(getQValue(table, state, actions[1]), LAMBDA first :
                 bestFrom(first.table, state, actions, 1, actions[1], first.value))

\* learn(state, action, reward, nextState)
learn(table, state, action, reward, nextState) ==
    updateQValue(table, state, action, reward, nextState)

\* calculateReward at the instant t (Date.now())
calculateReward(vehicle, action, energyPrice, chargingCost, timeUsed, t) ==
    LET healthy == IF vehicle.soc >= 50 /\ vehicle.soc <= 80 THEN 10 ELSE 0
        low == IF vehicle.soc < 20 THEN -20 ELSE 0
        price == IF action.shouldCharge /\ Less(energyPrice, Num(10, 100)) THEN 15
                 ELSE IF action.shouldCharge /\ Less(Num(15, 100), energyPrice) THEN -10
                 ELSE 0
        soon == /\ Len(vehicle.trip_schedule) > 0
                /\ Less(hoursBetween(vehicle.trip_schedule[1].departure, t), I(2))
        demand == IF soon /\ vehicle.soc >= 80 THEN 25
                  ELSE IF soon /\ vehicle.soc < 50 THEN -30
                  ELSE 0
    IN  Add(Sub(Sub(I(healthy + low + price), Mul(chargingCost, I(10))),
                Mul(timeUsed, I(2))),
            I(demand))

\* recommendStrategy without the clamp of the confidence to [0, 1]
recommendStrategyUnclamped(table, vehicle, currentHour, energyPrice, stationAvailability, explore, index) ==
    LET state == [hour |-> currentHour, vehicleSoC |-> vehicle.soc,
                  energyPrice |-> energyPrice,
                  stationAvailability |-> stationAvailability]
    IN  With(selectAction(table, state, explore, index), LAMBDA selected :
        With(getQValue(selected.table, state, selected.action), LAMBDA read :
            [table |-> read.table,
             result |-> [shouldCharge |-> selected.action.shouldCharge,
                         reasoning |-> <<>>,
                         confidence |->
                             RoundTo(Div(Add(read.value, I(50)), I(100)), 100)]]))

\* recommendStrategy; the reasoning is the list of its sentences
recommendStrategy(table, vehicle, currentHour, energyPrice, stationAvailability, explore, index) ==
    LET state == [hour |-> currentHour, vehicleSoC |-> vehicle.soc,
                  energyPrice |-> energyPrice,
                  stationAvailability |-> stationAvailability]
    IN  With(selectAction(table, state, explore, index), LAMBDA selected :
        With(getQValue(selected.table, state, selected.action), LAMBDA read :
            LET action == selected.action
                confidence ==
                    MathMin(I(1), MathMax(I(0), Div(Add(read.value, I(50)), I(100))))
                reasoning ==
                    IF action.shouldCharge
                      THEN <<"Charge">>
                           \o (IF Less(energyPrice, Num(10, 100))
                                 THEN <<"Low energy price detected.">> ELSE <<>>)
                           \o (IF vehicle.soc < 30
                                 THEN <<"Battery level critical.">> ELSE <<>>)
                      ELSE <<"Wait for better conditions.">>
                           \o (IF Less(Num(15, 100), energyPrice)
                                 THEN <<"Energy price too high.">> ELSE <<>>)
                           \o (IF vehicle.soc > 70
                                 THEN <<"Battery level sufficient.">> ELSE <<>>)
            IN  [table |-> read.table,
                 result |-> [shouldCharge |-> action.shouldCharge,
                             reasoning |-> reasoning,
                             confidence |-> RoundTo(confidence, 100)]]))

\* getPerformanceMetrics().totalStatesLearned
totalStatesLearned(table) == Cardinality(DOMAIN table)

-----------------------------------------------------------------------------
(* Inputs: a depot on a small grid, one simulated afternoon *)

\* the instant hour:minute of day `day`
At(day, hour, minute) == day * MsPerDay + hour * MsPerHour + minute * 60 * 1000

StartInstant == At(1, 10, 20)

TickMs == 5 * MsPerHour

NoTrip == <<>>

Trip(t) == <<[departure |-> t]>>

Vehicle(id, capacity, soc, x, y, trips, status, speed) ==
    [vehicle_id |-> id, battery_capacity |-> capacity, soc |-> soc,
     location |-> [x |-> x, y |-> y], trip_schedule |-> trips,
     status |-> status, charging_speed |-> speed]

\* The vehicles a fleet is drawn from, the least urgent first: a low, a
\* medium and two high ones, then the three the filter drops.
FleetRoster ==
    << Vehicle("EV-001", 80, 59, 3, 4, NoTrip, "idle", 50),
       Vehicle("EV-002", 60, 40, 6, 8, Trip(At(1, 20, 20)), "idle", 11),
       Vehicle("EV-003", 51, 27, 3, 4, NoTrip, "charging", 11),
       Vehicle("EV-004", 60, 10, 0, 0, Trip(At(1, 11, 20)), "idle", 50),
       Vehicle("EV-005", 60, 80, 0, 0, Trip(At(1, 11, 20)), "idle", 50),
       Vehicle("EV-006", 60, 20, 6, 8, Trip(At(1, 20, 20)), "in_use", 50),
       Vehicle("EV-007", 60, 50, 0, 0, NoTrip, "maintenance", 11) >>

Station(id, x, y, power, available, occupant, usage) ==
    [station_id |-> id, location |-> [x |-> x, y |-> y], max_power |-> power,
     available |-> available, occupied_by |-> occupant, current_usage |-> usage]

StationRoster ==
    << Station("CS-001", 0, 0, 50, TRUE, "", 0),
       Station("CS-002", 6, 8, 11, TRUE, "", 0),
       Station("CS-003", 3, 4, 150, FALSE, "EV-009", 7) >>

\* a table with one price for every hour
flatPricing == [k \in 1..24 |-> [hour |-> k - 1, price |-> Price(15), period |-> "shoulder"]]

PriceTables == {generateEnergyPricing, flatPricing}

\* the elements of roster at the positions in T, in the roster's order
RECURSIVE pick(_, _, _)
pick(roster, T, k) ==
    IF k > Len(roster) THEN <<>>
    ELSE (IF k \in T THEN <<roster[k]>> ELSE <<>>) \o pick(roster, T, k + 1)

Selections(roster, max) ==
    {pick(roster, T, 1) : T \in {U \in SUBSET (1..Len(roster)) : Cardinality(U) <= max}}

Fleets == Selections(FleetRoster, MaxFleet)

StationLists == Selections(StationRoster, MaxStations)

noCall == [op |-> "none"]

-----------------------------------------------------------------------------
(* The optimizer under repeated calls *)

InitInputs ==
    /\ fleet \in Fleets
    /\ stations \in StationLists
    /\ pricing \in PriceTables

\* the data service as constructed, before initialize
InitService ==
    /\ metrics = zeroMetrics
    /\ alerts = <<>>
    /\ lastUpdated = StartInstant
    /\ updates = 0

InitIdle ==
    /\ metricsIn = noCall
    /\ metricsOut = noCall
    /\ priorityOut = noCall
    /\ qTable = emptyMap
    /\ rewardHistory = <<>>
    /\ agentOut = noCall
    /\ InitService
    /\ callOut = noCall

Init ==
    /\ now = StartInstant
    /\ InitInputs
    /\ plans = <<>>
    /\ planAt = -1
    /\ prevAt = -1
    /\ runs = 0
    /\ InitIdle

\* optimizeChargingSchedule(fleet, stations, pricing) at the instant now
Optimize ==
    /\ runs < MaxRuns
    /\ \E run \in {optimizeChargingSchedule(fleet, stations, pricing, now)} :
           /\ plans' = run.plans
           /\ fleet' = run.fleet
           /\ stations' = run.stations
    /\ planAt' = now
    /\ prevAt' = planAt
    /\ runs' = runs + 1
    /\ UNCHANGED <<callOut, serviceVars, now, pricing, metricsVars, priorityOut, agentVars>>

\* time passes between two calls
Tick ==
    /\ now + TickMs <= StartInstant + MaxTicks * TickMs
    /\ now' = now + TickMs
    /\ UNCHANGED <<callOut, serviceVars, inputVars, runVars, metricsVars, priorityOut, agentVars>>

Next == Optimize \/ Tick

Spec == Init /\ [][Next]_vars

-----------------------------------------------------------------------------
(* The metrics aggregator on the plan lists the optimizer returns *)

\* a plan list at hand: one returned for the drawn inputs at the drawn instant
MetricsInit ==
    /\ now \in {StartInstant + k * TickMs : k \in 0..MaxTicks}
    /\ InitInputs
    /\ plans = optimizeChargingSchedule(fleet, stations, pricing, now).plans
    /\ planAt = now
    /\ prevAt = -1
    /\ runs = 1
    /\ InitIdle

\* calculateOptimizationMetrics(plansArg, stationsArg, pricing)
Metrics ==
    \E plansArg \in {plans, <<>>}, stationsArg \in {stations, <<>>} :
        /\ metricsIn' = [op |-> "calculateOptimizationMetrics",
                         plans |-> plansArg, stations |-> stationsArg]
        /\ metricsOut' = calculateOptimizationMetrics(plansArg, stationsArg, pricing)
        /\ UNCHANGED <<callOut, serviceVars, now, inputVars, runVars, priorityOut, agentVars>>

MetricsNext == Metrics

MetricsSpec == MetricsInit /\ [][MetricsNext]_vars

-----------------------------------------------------------------------------
(* The priority classifier on single vehicles *)

PrioritySocs == {0, 15, 29, 30, 31, 45, 59, 60, 61, 79, 80, 100}

PriorityTrips ==
    {NoTrip, Trip(At(1, 11, 20)), Trip(At(1, 16, 19)), Trip(At(1, 16, 20)),
     Trip(At(1, 20, 20)), Trip(At(0, 23, 0))}

PriorityInit ==
    /\ now = StartInstant
    /\ fleet = <<>>
    /\ stations = <<>>
    /\ pricing = generateEnergyPricing
    /\ plans = <<>>
    /\ planAt = -1
    /\ prevAt = -1
    /\ runs = 0
    /\ InitIdle

\* calculatePriority(vehicle) at the instant now
Classify ==
    \E soc \in PrioritySocs, trips \in PriorityTrips :
        LET vehicle == Vehicle("EV-001", 60, soc, 0, 0, trips, "idle", 11)
        IN  /\ priorityOut' = [op |-> "calculatePriority", vehicle |-> vehicle,
                                at |-> now,
                                result |-> calculatePriority(vehicle, now)]
            /\ UNCHANGED <<callOut, serviceVars, now, inputVars, runVars, metricsVars, agentVars>>

PriorityNext == Classify \/ Tick

PrioritySpec == PriorityInit /\ [][PriorityNext]_vars

-----------------------------------------------------------------------------
(* The agent under learn, selectAction and recommendStrategy calls *)

MaxLearn == 2

AgentState(hour, soc, price, availability) ==
    [hour |-> hour, vehicleSoC |-> soc, energyPrice |-> price,
     stationAvailability |-> availability]

AgentStates ==
    {AgentState(3, 10, Price(8), Num(1, 2)), AgentState(15, 50, Price(20), I(1))}

Rewards == {I(-30), I(25)}

\* outcomes of Math.floor(Math.random() * 10): the last action, not charging
RandomIndexes == {9}

AgentInit ==
    /\ now = StartInstant
    /\ fleet = <<>>
    /\ stations = <<>>
    /\ pricing = generateEnergyPricing
    /\ plans = <<>>
    /\ planAt = -1
    /\ prevAt = -1
    /\ runs = 0
    /\ InitIdle

Learn ==
    /\ Len(rewardHistory) < MaxLearn
    /\ \E state \in AgentStates, nextState \in AgentStates, reward \in Rewards,
          k \in {5, 10} :
           LET action == getPossibleActions(state)[k]
           IN  /\ qTable' = learn(qTable, state, action, reward, nextState)
               /\ rewardHistory' = Append(rewardHistory, reward)
               /\ agentOut' = [op |-> "learn", state |-> state, action |-> action,
                               reward |-> reward, nextState |-> nextState]
    /\ UNCHANGED <<callOut, serviceVars, now, inputVars, runVars, metricsVars, priorityOut>>

SelectAction ==
    /\ \E state \in AgentStates, explore \in BOOLEAN, index \in RandomIndexes :
           \E selected \in {selectAction(qTable, state, explore, index)} :
               /\ qTable' = selected.table
               /\ agentOut' = [op |-> "selectAction", state |-> state,
                               action |-> selected.action]
    /\ UNCHANGED <<callOut, serviceVars, now, inputVars, runVars, metricsVars, priorityOut, rewardHistory>>

RecommendStrategy ==
    /\ \E state \in AgentStates, explore \in BOOLEAN, index \in RandomIndexes :
           \E recommended \in
                 {recommendStrategy(qTable, [soc |-> state.vehicleSoC], state.hour,
                                    state.energyPrice, state.stationAvailability,
                                    explore, index)} :
               /\ qTable' = recommended.table
               /\ agentOut' = [op |-> "recommendStrategy", state |-> state,
                               result |-> recommended.result]
    /\ UNCHANGED <<callOut, serviceVars, now, inputVars, runVars, metricsVars, priorityOut, rewardHistory>>

AgentNext == Learn \/ SelectAction \/ RecommendStrategy

AgentSpec == AgentInit /\ [][AgentNext]_vars

\* the agent under learn calls alone
LearnNext == Learn

LearnSpec == AgentInit /\ [][LearnNext]_vars

-----------------------------------------------------------------------------
(* recommendStrategy on tables that hold learned values of every magnitude *)

\* Q-values: around the two ends of the clamp, far beyond them, and the
\* infinities a sum of rewards overflows to
SeedValues ==
    {I(-1000000), I(-51), I(-50), Num(-99, 2), I(0), Num(1, 3), Num(99, 2),
     I(50), I(51), I(1000000), Infinity, Neg(Infinity)}

\* the table in which the ten entries of state's key all hold value q
seededTable(state, q) ==
    stateToKey(state) :>
        [ak \in {actionToKey(getPossibleActions(state)[k]) : k \in 1..10} |->
            [state |-> stateToKey(state), action |-> ak, value |-> q, visits |-> 1]]

SeededInit ==
    /\ now = StartInstant
    /\ fleet = <<>>
    /\ stations = <<>>
    /\ pricing = generateEnergyPricing
    /\ plans = <<>>
    /\ planAt = -1
    /\ prevAt = -1
    /\ runs = 0
    /\ metricsIn = noCall
    /\ metricsOut = noCall
    /\ priorityOut = noCall
    /\ \E state \in AgentStates, q \in SeedValues : qTable = seededTable(state, q)
    /\ rewardHistory = <<>>
    /\ agentOut = noCall
    /\ InitService
    /\ callOut = noCall

SeededNext == RecommendStrategy

SeededSpec == SeededInit /\ [][SeededNext]_vars

-----------------------------------------------------------------------------
(* The optimizer around the clock: runs in the night, in the morning and in *)
(* the last hour of the day, with long and short charges                    *)

\* a table whose one cheap hour is 03:00
valleyPricing ==
    [k \in 1..24 |-> [hour |-> k - 1,
                      price |-> IF k - 1 = 3 THEN Price(5) ELSE Price(12),
                      period |-> IF k - 1 = 3 THEN "off_peak" ELSE "shoulder"]]

ScheduleInstants == {At(1, 3, 20), At(1, 10, 20), At(1, 23, 20)}

\* a slow charger with nine hours to charge and no trip, a vehicle with a
\* trip late the next day, and one that must leave within the hour
ScheduleRoster ==
    << Vehicle("EV-001", 100, 30, 3, 4, NoTrip, "idle", 7),
       Vehicle("EV-002", 60, 40, 6, 8, Trip(At(2, 20, 20)), "idle", 50),
       Vehicle("EV-003", 60, 10, 0, 0, Trip(At(1, 11, 20)), "idle", 50) >>

ScheduleInit ==
    /\ now \in ScheduleInstants
    /\ fleet \in Selections(ScheduleRoster, MaxFleet)
    /\ stations \in StationLists
    /\ pricing \in PriceTables \cup {valleyPricing}
    /\ plans = <<>>
    /\ planAt = -1
    /\ prevAt = -1
    /\ runs = 0
    /\ InitIdle

ScheduleSpec == ScheduleInit /\ [][Next]_vars

-----------------------------------------------------------------------------
(* findOptimalChargingWindow called at every hour of the day *)

HourlyInstants == {At(1, h, 20) : h \in 0..23}

\* charging durations in hours: under and over one hour, whole and
\* fractional, and longer than the eight off-peak hours
WindowDurations == {Num(24, 25), I(2), Num(30, 11), Num(60, 7)}

\* no trip, a trip at noon of the day, a trip at noon of the next day
WindowTrips == {NoTrip, Trip(At(1, 12, 0)), Trip(At(2, 12, 0))}

WindowInit ==
    /\ now \in HourlyInstants
    /\ fleet = <<>>
    /\ stations = <<>>
    /\ pricing \in PriceTables \cup {valleyPricing}
    /\ plans = <<>>
    /\ planAt = -1
    /\ prevAt = -1
    /\ runs = 0
    /\ InitIdle

\* findOptimalChargingWindow(vehicle, durationHours, pricing) at the instant now
FindWindow ==
    /\ \E trips \in WindowTrips, durationHours \in WindowDurations :
           LET vehicle == Vehicle("EV-001", 60, 40, 0, 0, trips, "idle", 11)
           IN  callOut' = [op |-> "findOptimalChargingWindow", vehicle |-> vehicle,
                           durationHours |-> durationHours, at |-> now,
                           result |-> findOptimalChargingWindow(vehicle, durationHours,
                                                                pricing, now)]
    /\ UNCHANGED <<now, inputVars, runVars, metricsVars, priorityOut, agentVars, serviceVars>>

WindowNext == FindWindow

WindowSpec == WindowInit /\ [][WindowNext]_vars

-----------------------------------------------------------------------------
(* calculateChargingCost called on its own *)

CostEnergies == {I(1), I(48), Num(321, 10)}

CostStartHours == {0, 10, 22, 23}

CostDurations == {Num(1, 2), I(1), Num(3, 2), I(2), Num(30, 11), Num(60, 7)}

CostInit ==
    /\ now = StartInstant
    /\ fleet = <<>>
    /\ stations = <<>>
    /\ pricing \in PriceTables \cup {valleyPricing}
    /\ plans = <<>>
    /\ planAt = -1
    /\ prevAt = -1
    /\ runs = 0
    /\ InitIdle

\* calculateChargingCost(energyAmount, startHour, durationHours, pricing)
ChargingCost ==
    /\ \E energyAmount \in CostEnergies, startHour \in CostStartHours,
          durationHours \in CostDurations :
           callOut' = [op |-> "calculateChargingCost", energyAmount |-> energyAmount,
                       startHour |-> startHour, durationHours |-> durationHours,
                       result |-> calculateChargingCost(energyAmount, startHour,
                                                        durationHours, pricing)]
    /\ UNCHANGED <<now, inputVars, runVars, metricsVars, priorityOut, agentVars, serviceVars>>

CostNext == ChargingCost

CostSpec == CostInit /\ [][CostNext]_vars

-----------------------------------------------------------------------------
(* stateToKey over the hours of the day and the states of charge *)

\* states of charge at both sides of every bucket border, 0 and 100 included
KeySocs == {0, 19, 20, 39, 40, 59, 60, 79, 80, 99, 100}

KeyPrices == {Price(8), Price(20)}

KeyInit ==
    /\ now = StartInstant
    /\ fleet = <<>>
    /\ stations = <<>>
    /\ pricing = generateEnergyPricing
    /\ plans = <<>>
    /\ planAt = -1
    /\ prevAt = -1
    /\ runs = 0
    /\ InitIdle

\* stateToKey(state), as recommendStrategy and updateQValue call it
StateKey ==
    /\ \E hour \in 0..23, soc \in KeySocs, price \in KeyPrices :
           LET state == AgentState(hour, soc, price, Num(1, 2))
           IN  callOut' = [op |-> "stateToKey", state |-> state,
                           result |-> stateToKey(state)]
    /\ UNCHANGED <<now, inputVars, runVars, metricsVars, priorityOut, agentVars, serviceVars>>

KeyNext == StateKey

KeySpec == KeyInit /\ [][KeyNext]_vars

-----------------------------------------------------------------------------
(* One call of optimizeChargingSchedule, statement by statement: callOut is *)
(* the call's frame (its locals and where it stands), and the loops of      *)
(* findOptimalChargingWindow and calculateChargingCost take one step per    *)
(* iteration, so that a loop that does not end is a behaviour that never    *)
(* reaches the return.                                                      *)

\* The ceiling of the loop counter i of calculateChargingCost in a loop
\* whose bound is Infinity: it stands for 2^53, where i++ leaves a double as
\* it is. Under a finite bound the counter is exact.
MaxLoop == 4

\* a vehicle whose charge takes 0.6 h at 50 kW and 2.73 h at 11 kW, a
\* vehicle whose charging_speed is 0, and one with a trip within the hour
CallRoster ==
    << Vehicle("EV-001", 60, 40, 3, 4, Trip(At(1, 20, 20)), "idle", 50),
       Vehicle("EV-002", 50, 70, 0, 0, NoTrip, "idle", 0),
       Vehicle("EV-003", 60, 10, 0, 0, Trip(At(1, 11, 20)), "idle", 50) >>

\* the last station has max_power 0
CallStations ==
    << Station("CS-001", 0, 0, 50, TRUE, "", 0),
       Station("CS-002", 6, 8, 11, TRUE, "", 0),
       Station("CS-003", 3, 4, 0, TRUE, "", 0) >>

CallInit ==
    /\ now = StartInstant
    /\ fleet \in Selections(CallRoster, MaxFleet)
    /\ stations \in Selections(CallStations, MaxStations)
    /\ pricing = generateEnergyPricing
    /\ plans = <<>>
    /\ planAt = -1
    /\ prevAt = -1
    /\ runs = 0
    /\ InitIdle

\* the locals of a frame that is between two vehicles
noLocals ==
    [nearest |-> 0, energyNeeded |-> I(0), chargingDurationHours |-> I(0),
     hour |-> 0, minCost |-> Infinity, optimalHour |-> 0,
     caller |-> "none", energyAmount |-> I(0), startHour |-> 0,
     hoursToCharge |-> I(0), i |-> 0, totalCost |-> I(0)]

\* the frame on entry of calculateChargingCost(energyAmount, startHour,
\* frame.chargingDurationHours, pricing), called from caller
enterCost(frame, caller, energyAmount, startHour) ==
    [frame EXCEPT !.pc = "cost", !.caller = caller, !.energyAmount = energyAmount,
                  !.startHour = startHour,
                  !.hoursToCharge = MathCeil(frame.chargingDurationHours),
                  !.i = 0, !.totalCost = I(0)]

\* the other variables of the state, which a step inside the call leaves
callFrameOnly ==
    UNCHANGED <<now, inputVars, metricsVars, priorityOut, agentVars, serviceVars>>

\* lines 781-803: the call is made; the filters and the sort run
Call ==
    /\ callOut.op = "none"
    /\ callOut' = [op |-> "optimizeChargingSchedule", pc |-> "vehicle", at |-> now,
                   availableStations |-> SelectSeq(stations, LAMBDA st : st.available),
                   sortedVehicles |-> sortByPriority(SelectSeq(fleet, needsCharge), now),
                   k |-> 1, plans |-> <<>>, stationAssignments |-> {}] @@ noLocals
    /\ UNCHANGED runVars
    /\ callFrameOnly

\* lines 805-838 and 745-758: the next vehicle of the for-of loop, up to the
\* first calculateChargingCost call made for it or to the continue
VisitVehicle ==
    /\ callOut.op = "optimizeChargingSchedule"
    /\ callOut.pc = "vehicle"
    /\ callOut.k <= Len(callOut.sortedVehicles)
    /\ LET vehicle == callOut.sortedVehicles[callOut.k]
           energy == energyNeeded(vehicle)
           nearest == nearestStation(vehicle, callOut.availableStations,
                                     callOut.stationAssignments)
           station == callOut.availableStations[nearest]
           effectiveChargingRate ==
               IF station.max_power < vehicle.charging_speed
                 THEN station.max_power ELSE vehicle.charging_speed
           duration == Div(energy, I(effectiveChargingRate))
           currentHour == getHours(callOut.at)
           urgent ==
               /\ Len(vehicle.trip_schedule) > 0
               /\ Less(hoursBetween(vehicle.trip_schedule[1].departure, callOut.at),
                       Add(duration, I(2)))
           entered == [callOut EXCEPT !.nearest = nearest, !.energyNeeded = energy,
                                      !.chargingDurationHours = duration,
                                      !.hour = currentHour, !.minCost = Infinity,
                                      !.optimalHour = currentHour]
       IN  callOut' =
             IF ~Less(I(0), energy) \/ nearest = 0
               THEN [callOut EXCEPT !.k = @ + 1]
             ELSE IF urgent
               THEN enterCost(entered, "plan", energy, currentHour)
             ELSE [entered EXCEPT !.pc = "scan"]
    /\ UNCHANGED runVars
    /\ callFrameOnly

\* lines 760-770 and 858: the head of the scan of findOptimalChargingWindow;
\* after the last hour the function returns optimalHour and the cost of the
\* plan is computed
ScanHour ==
    /\ callOut.op = "optimizeChargingSchedule"
    /\ callOut.pc = "scan"
    /\ callOut' =
         IF callOut.hour < getHours(callOut.at) + 24
           THEN enterCost(callOut, "scan", I(1), callOut.hour % 24)
           ELSE enterCost(callOut, "plan", callOut.energyNeeded, callOut.optimalHour)
    /\ UNCHANGED runVars
    /\ callFrameOnly

\* lines 695-701: one iteration of the loop of calculateChargingCost
CostIteration ==
    /\ callOut.op = "optimizeChargingSchedule"
    /\ callOut.pc = "cost"
    /\ Less(I(callOut.i), callOut.hoursToCharge)
    /\ LET hour == (callOut.startHour + callOut.i) % 24
           energyThisHour ==
               MathMin(Div(callOut.energyAmount, callOut.chargingDurationHours),
                       callOut.energyAmount)
       IN  callOut' =
             [callOut EXCEPT
                !.totalCost = Plus(@, Times(energyThisHour, pricing[hour + 1].price)),
                !.i = IF IsFinite(callOut.hoursToCharge) \/ @ < MaxLoop
                        THEN @ + 1 ELSE @]
    /\ UNCHANGED runVars
    /\ callFrameOnly

\* line 703, the return of calculateChargingCost, and what its caller does
\* with the cost: lines 763-767 in the scan, lines 841-872 for the plan
CostReturn ==
    /\ callOut.op = "optimizeChargingSchedule"
    /\ callOut.pc = "cost"
    /\ ~Less(I(callOut.i), callOut.hoursToCharge)
    /\ LET cost == Canon(callOut.totalCost)
           vehicle == callOut.sortedVehicles[callOut.k]
           station == callOut.availableStations[callOut.nearest]
           priority == calculatePriority(vehicle, callOut.at)
           startTime == startTimeOf(priority, callOut.optimalHour, callOut.at)
           plan == [vehicle_id |-> vehicle.vehicle_id,
                    station_id |-> station.station_id,
                    start_time |-> startTime,
                    end_time |-> addHours(startTime, callOut.chargingDurationHours),
                    energy_to_charge |-> RoundTo(callOut.energyNeeded, 10),
                    estimated_cost |-> RoundTo(cost, 100),
                    priority |-> priority,
                    distance_to_station |->
                        RoundSqrt10(calculateDistance(vehicle.location,
                                                      station.location))]
       IN  callOut' =
             IF callOut.caller = "scan"
               THEN [callOut EXCEPT
                        !.pc = "scan", !.hour = @ + 1,
                        !.minCost = IF Less(cost, @) THEN cost ELSE @,
                        !.optimalHour = IF Less(cost, callOut.minCost)
                                          THEN callOut.startHour ELSE @]
               ELSE [k \in {"op", "pc", "at", "availableStations", "sortedVehicles",
                             "k", "plans", "stationAssignments"} |->
                        IF k = "pc" THEN "vehicle"
                        ELSE IF k = "k" THEN callOut.k + 1
                        ELSE IF k = "plans" THEN Append(callOut.plans, plan)
                        ELSE IF k = "stationAssignments"
                          THEN callOut.stationAssignments
                                 \cup {<<station.station_id, vehicle.vehicle_id>>}
                        ELSE callOut[k]] @@ noLocals
    /\ UNCHANGED runVars
    /\ callFrameOnly

\* line 875: return plans
Return ==
    /\ callOut.op = "optimizeChargingSchedule"
    /\ callOut.pc = "vehicle"
    /\ callOut.k > Len(callOut.sortedVehicles)
    /\ callOut' = [callOut EXCEPT !.pc = "returned"]
    /\ plans' = callOut.plans
    /\ planAt' = callOut.at
    /\ prevAt' = planAt
    /\ runs' = runs + 1
    /\ callFrameOnly

CallNext == Call \/ VisitVehicle \/ ScanHour \/ CostIteration \/ CostReturn \/ Return

\* The engine runs a call it has started: a step that can be taken is taken.
CallSpec == CallInit /\ [][CallNext]_vars /\ WF_vars(CallNext)

-----------------------------------------------------------------------------
(* dataService: the store the routes and the update timer work on *)

MaxUpdates == 2

\* generateAlerts(fleet) at the instant t; an alert is its number, type,
\* severity and vehicle ("" for the grid alert)
generateAlerts(fleetArg, t) ==
    LET alertsOf(vehicle) ==
            (IF vehicle.soc < 20 /\ vehicle.status # "charging"
               THEN <<[type |-> "low_battery",
                       severity |-> IF vehicle.soc < 10 THEN "critical" ELSE "warning",
                       vehicle_id |-> vehicle.vehicle_id]>>
               ELSE <<>>)
            \o (IF vehicle.status = "maintenance"
                  THEN <<[type |-> "maintenance", severity |-> "warning",
                          vehicle_id |-> vehicle.vehicle_id]>>
                  ELSE <<>>)
            \o (IF /\ vehicle.soc < 50
                   /\ Len(vehicle.trip_schedule) > 0
                   /\ Less(hoursBetween(vehicle.trip_schedule[1].departure, t), I(4))
                  THEN <<[type |-> "trip_conflict", severity |-> "critical",
                          vehicle_id |-> vehicle.vehicle_id]>>
                  ELSE <<>>)
        RECURSIVE ofFleet(_)
        ofFleet(k) == IF k > Len(fleetArg) THEN <<>>
                      ELSE alertsOf(fleetArg[k]) \o ofFleet(k + 1)
        grid == IF getHours(t) >= 14 /\ getHours(t) < 20
                  THEN <<[type |-> "grid_peak", severity |-> "info", vehicle_id |-> ""]>>
                  ELSE <<>>
        listed == ofFleet(1) \o grid
    IN  [k \in 1..Len(listed) |-> [id |-> k] @@ listed[k]]

\* trainRLAgent at the instant t: one learn call for every plan whose
\* vehicle is in the fleet, in the order of the plans. The result is the
\* agent's table and reward history.
trainRLAgent(table, history, fleetArg, stationsArg, prices, plansArg, t) ==
    LET currentHour == getHours(t)
        currentPrice == prices[currentHour + 1].price
        stationAvailability ==
            Div(I(Len(SelectSeq(stationsArg, LAMBDA st : st.available))),
                I(Len(stationsArg)))
        RECURSIVE each(_, _)
        each(k, agent) ==
            IF k > Len(plansArg) THEN agent
            ELSE With2(plansArg[k], agent, LAMBDA plan, sofar :
                 IF ~\E i \in 1..Len(fleetArg) : fleetArg[i].vehicle_id = plan.vehicle_id
                   THEN each(k + 1, sofar)
                 ELSE
                 LET vehicle == fleetArg[CHOOSE i \in 1..Len(fleetArg) :
                                    /\ fleetArg[i].vehicle_id = plan.vehicle_id
                                    /\ \A j \in 1..(i - 1) :
                                           fleetArg[j].vehicle_id # plan.vehicle_id]
                     state == [hour |-> currentHour, vehicleSoC |-> vehicle.soc,
                               energyPrice |-> currentPrice,
                               stationAvailability |-> stationAvailability]
                     action == [shouldCharge |-> TRUE, targetSoC |-> 90,
                                urgency |-> plan.priority]
                     nextState == [hour |-> (currentHour + 1) % 24, vehicleSoC |-> 90,
                                   energyPrice |-> prices[((currentHour + 1) % 24) + 1].price,
                                   stationAvailability |-> stationAvailability]
                 IN  With(calculateReward(vehicle, action, currentPrice,
                                          plan.estimated_cost,
                                          hoursBetween(plan.end_time, plan.start_time), t),
                          LAMBDA reward :
                              each(k + 1,
                                   [table |-> learn(sofar.table, state, action, reward,
                                                    nextState),
                                    history |-> Append(sofar.history, reward)])))
    IN  each(1, [table |-> table, history |-> history])

\* runOptimization at the instant t, on the store svc (its fields and the
\* agent's); the result is the store as the call leaves it
runOptimization(svc, t) ==
    With(optimizeChargingSchedule(svc.fleet, svc.stations, svc.pricing, t), LAMBDA run :
    With(calculateOptimizationMetrics(run.plans, run.stations, svc.pricing), LAMBDA measured :
    IF measured.error # "none"
      THEN [svc EXCEPT !.plans = run.plans, !.fleet = run.fleet,
                       !.stations = run.stations]
    ELSE
    With(trainRLAgent(svc.qTable, svc.rewardHistory, run.fleet, run.stations,
                      svc.pricing, run.plans, t), LAMBDA trained :
        [svc EXCEPT !.plans = run.plans, !.fleet = run.fleet, !.stations = run.stations,
                    !.metrics = measured.snapshot[1],
                    !.alerts = generateAlerts(run.fleet, t),
                    !.qTable = trained.table,
                    !.rewardHistory = trained.history,
                    !.lastUpdated = t])))

\* the plan manualAssignment builds for a vehicle on a station at instant t
manualPlan(vehicle, station, prices, t) ==
    LET effectiveChargingRate ==
            IF station.max_power < vehicle.charging_speed
              THEN station.max_power ELSE vehicle.charging_speed
    IN  With(Num(vehicle.battery_capacity * (90 - vehicle.soc), 100), LAMBDA energy :
        With(Div(energy, I(effectiveChargingRate)), LAMBDA chargingDurationHours :
            [vehicle_id |-> vehicle.vehicle_id,
             station_id |-> station.station_id,
             start_time |-> t,
             end_time |-> addHours(t, chargingDurationHours),
             energy_to_charge |-> RoundTo(energy, 10),
             estimated_cost |-> RoundTo(Mul(energy, prices[getHours(t) + 1].price), 100),
             priority |-> "medium",
             distance_to_station |-> I(0)]))

\* the index of the first element of seq that satisfies Test, 0 if none
\* (Array.prototype.findIndex, plus 1)
findIndex(seq, Test(_)) ==
    IF \E k \in 1..Len(seq) : Test(seq[k])
      THEN CHOOSE k \in 1..Len(seq) : Test(seq[k]) /\ \A j \in 1..(k - 1) : ~Test(seq[j])
      ELSE 0

\* manualAssignment that always pushes the new plan
manualAssignmentPushOnly(svc, vehicleId, stationId, t) ==
    With2(findIndex(svc.fleet, LAMBDA v : v.vehicle_id = vehicleId),
          findIndex(svc.stations, LAMBDA st : st.station_id = stationId),
          LAMBDA vi, si :
        IF vi = 0 \/ si = 0 THEN svc
        ELSE [svc EXCEPT
                !.plans = Append(@, manualPlan(svc.fleet[vi], svc.stations[si],
                                               svc.pricing, t)),
                !.fleet[vi].status = "charging",
                !.stations[si].available = FALSE,
                !.stations[si].occupied_by = vehicleId,
                !.lastUpdated = t])

\* manualAssignment(vehicleId, stationId) at the instant t; an unknown id
\* returns null and leaves the store as it is
manualAssignment(svc, vehicleId, stationId, t) ==
    With2(findIndex(svc.fleet, LAMBDA v : v.vehicle_id = vehicleId),
          findIndex(svc.stations, LAMBDA st : st.station_id = stationId),
          LAMBDA vi, si :
        IF vi = 0 \/ si = 0 THEN svc
        ELSE With2(manualPlan(svc.fleet[vi], svc.stations[si], svc.pricing, t),
                   findIndex(svc.plans, LAMBDA p : p.vehicle_id = vehicleId),
                   LAMBDA newPlan, existingPlanIndex :
             [svc EXCEPT
                !.plans = IF existingPlanIndex > 0
                            THEN [@ EXCEPT ![existingPlanIndex] = newPlan]
                            ELSE Append(@, newPlan),
                !.fleet[vi].status = "charging",
                !.stations[si].available = FALSE,
                !.stations[si].occupied_by = vehicleId,
                !.lastUpdated = t]))

\* simulateUpdates at the instant t. draws[k] is the outcome of
\* Math.random() in the charge of vehicle k; toggled is the index of the
\* station whose availability flips, 0 when Math.random() >= 0.1.
simulateUpdates(svc, draws, toggled, t) ==
    LET charged(vehicle, draw) ==
            IF vehicle.status # "charging" THEN vehicle
            ELSE With(MathMin(Add(vehicle.current_charge,
                                  Mul(Num(vehicle.charging_speed, 60),
                                      Add(I(5), Mul(draw, I(5))))),
                              I(vehicle.battery_capacity)), LAMBDA charge :
                 With(MathRound(Mul(Div(charge, I(vehicle.battery_capacity)), I(100))).n,
                      LAMBDA soc :
                     [vehicle EXCEPT !.current_charge = charge,
                                     !.soc = soc,
                                     !.status = IF soc >= 90 THEN "idle" ELSE @]))
        flipped(station) ==
            IF ~station.available
              THEN [station EXCEPT !.available = TRUE, !.current_usage = 0,
                                   !.occupied_by = ""]
              ELSE [station EXCEPT !.available = FALSE]
    IN  [svc EXCEPT
            !.fleet = [k \in DOMAIN @ |-> charged(@[k], draws[k])],
            !.stations = [k \in DOMAIN @ |-> IF k = toggled THEN flipped(@[k]) ELSE @[k]],
            !.lastUpdated = t]

\* outcomes of Math.random() in the charge added
ChargeDraws == {I(0), Num(1, 2)}

ServiceVehicle(id, capacity, charge, soc, trips, status) ==
    Vehicle(id, capacity, soc, 3, 4, trips, status, 50)
        @@ [current_charge |-> charge, model |-> "Nissan Leaf"]

\* a vehicle that needs charge before a trip one hour ahead, one that
\* needs some before a trip in the evening, and one close to full on charge
ServiceFleets ==
    { << ServiceVehicle("EV-001", 60, I(6), 10, Trip(At(1, 11, 20)), "idle"),
         ServiceVehicle("EV-002", 50, I(44), 88, NoTrip, "charging") >>,
      << ServiceVehicle("EV-001", 60, I(24), 40, Trip(At(1, 20, 20)), "idle"),
         ServiceVehicle("EV-002", 50, I(44), 88, NoTrip, "charging") >> }

ServiceStationLists ==
    { << Station("CS-001", 0, 0, 50, TRUE, "", 0),
         Station("CS-002", 6, 8, 150, FALSE, "EV-009", 7) >> }

\* the store and the agent as one record, and back
store ==
    [fleet |-> fleet, stations |-> stations, pricing |-> pricing, plans |-> plans,
     metrics |-> metrics, alerts |-> alerts, lastUpdated |-> lastUpdated,
     qTable |-> qTable, rewardHistory |-> rewardHistory]

Stored(svc) ==
    /\ fleet' = svc.fleet
    /\ stations' = svc.stations
    /\ pricing' = svc.pricing
    /\ plans' = svc.plans
    /\ metrics' = svc.metrics
    /\ alerts' = svc.alerts
    /\ lastUpdated' = svc.lastUpdated
    /\ qTable' = svc.qTable
    /\ rewardHistory' = svc.rewardHistory

\* initialize(): the generated data, then the first runOptimization
ServiceInit ==
    /\ now = StartInstant
    /\ \E f \in ServiceFleets, st \in ServiceStationLists :
         \E svc \in {runOptimization(
                        [fleet |-> f, stations |-> st, pricing |-> generateEnergyPricing,
                         plans |-> <<>>, metrics |-> zeroMetrics, alerts |-> <<>>,
                         lastUpdated |-> StartInstant, qTable |-> emptyMap,
                         rewardHistory |-> <<>>], StartInstant)} :
             /\ fleet = svc.fleet
             /\ stations = svc.stations
             /\ pricing = svc.pricing
             /\ plans = svc.plans
             /\ metrics = svc.metrics
             /\ alerts = svc.alerts
             /\ lastUpdated = svc.lastUpdated
             /\ qTable = svc.qTable
             /\ rewardHistory = svc.rewardHistory
    /\ planAt = StartInstant
    /\ prevAt = -1
    /\ runs = 1
    /\ updates = 0
    /\ metricsIn = noCall
    /\ metricsOut = noCall
    /\ priorityOut = noCall
    /\ agentOut = noCall
    /\ callOut = noCall

\* POST /optimize
RunOptimization ==
    /\ runs < MaxRuns
    /\ \E svc \in {runOptimization(store, now)} : Stored(svc)
    /\ planAt' = now
    /\ prevAt' = planAt
    /\ runs' = runs + 1
    /\ UNCHANGED <<callOut, now, updates, metricsVars, priorityOut, agentOut>>

\* POST /manual-assignment with the ids of the request
ManualAssignment ==
    /\ updates < MaxUpdates
    /\ \E vehicleId \in {"EV-001", "EV-002", "EV-404"},
          stationId \in {"CS-001", "CS-002", "CS-404"} :
           \E svc \in {manualAssignment(store, vehicleId, stationId, now)} : Stored(svc)
    /\ updates' = updates + 1
    /\ UNCHANGED <<callOut, now, planAt, prevAt, runs, metricsVars, priorityOut, agentOut>>

\* the update timer fires
SimulateUpdates ==
    /\ updates < MaxUpdates
    /\ \E draws \in [1..Len(fleet) -> ChargeDraws], toggled \in 0..Len(stations) :
           \E svc \in {simulateUpdates(store, draws, toggled, now)} : Stored(svc)
    /\ updates' = updates + 1
    /\ UNCHANGED <<callOut, now, planAt, prevAt, runs, metricsVars, priorityOut, agentOut>>

ServiceNext == RunOptimization \/ ManualAssignment \/ SimulateUpdates \/ Tick

ServiceSpec == ServiceInit /\ [][ServiceNext]_vars

-----------------------------------------------------------------------------
(* The agent as the data service trains it, asked for recommendations *)

\* a vehicle whose plan earns a positive reward (a cheap short charge from a
\* healthy state of charge) and one whose plan earns a negative one
TrainedFleets ==
    { << ServiceVehicle("EV-001", 50, I(35), 70, NoTrip, "idle"),
         ServiceVehicle("EV-002", 50, I(44), 88, NoTrip, "charging") >>,
      << ServiceVehicle("EV-001", 60, I(6), 10, Trip(At(1, 11, 20)), "idle"),
         ServiceVehicle("EV-002", 50, I(44), 88, NoTrip, "charging") >> }

\* initialize() on these fleets
TrainedInit ==
    /\ now = StartInstant
    /\ \E f \in TrainedFleets, st \in ServiceStationLists :
         \E svc \in {runOptimization(
                        [fleet |-> f, stations |-> st, pricing |-> generateEnergyPricing,
                         plans |-> <<>>, metrics |-> zeroMetrics, alerts |-> <<>>,
                         lastUpdated |-> StartInstant, qTable |-> emptyMap,
                         rewardHistory |-> <<>>], StartInstant)} :
             /\ fleet = svc.fleet
             /\ stations = svc.stations
             /\ pricing = svc.pricing
             /\ plans = svc.plans
             /\ metrics = svc.metrics
             /\ alerts = svc.alerts
             /\ lastUpdated = svc.lastUpdated
             /\ qTable = svc.qTable
             /\ rewardHistory = svc.rewardHistory
    /\ planAt = StartInstant
    /\ prevAt = -1
    /\ runs = 1
    /\ updates = 0
    /\ metricsIn = noCall
    /\ metricsOut = noCall
    /\ priorityOut = noCall
    /\ agentOut = noCall
    /\ callOut = noCall

\* POST /ml/rl-recommend for a vehicle of the fleet; explore and index are
\* the outcomes of the two Math.random() calls of selectAction
Recommend ==
    /\ \E vi \in 1..Len(fleet), explore \in BOOLEAN, index \in RandomIndexes :
         LET currentHour == getHours(now)
             stationAvailability ==
                 Div(I(Len(SelectSeq(stations, LAMBDA st : st.available))),
                     I(Len(stations)))
         IN  \E recommended \in
                   {recommendStrategy(qTable, fleet[vi], currentHour,
                                      pricing[currentHour + 1].price,
                                      stationAvailability, explore, index)} :
                 /\ qTable' = recommended.table
                 /\ agentOut' = [op |-> "recommendStrategy",
                                 state |-> AgentState(currentHour, fleet[vi].soc,
                                                      pricing[currentHour + 1].price,
                                                      stationAvailability),
                                 explore |-> explore,
                                 result |-> recommended.result]
    /\ UNCHANGED <<callOut, serviceVars, now, inputVars, runVars, metricsVars,
                   priorityOut, rewardHistory>>

TrainedNext == RunOptimization \/ Recommend \/ Tick

TrainedSpec == TrainedInit /\ [][TrainedNext]_vars

-----------------------------------------------------------------------------
(* Properties *)

\* the vehicle / station of the current inputs with the given id
vehicleOf(id) == CHOOSE v \in {fleet[i] : i \in 1..Len(fleet)} : v.vehicle_id = id

stationOf(id) == CHOOSE st \in {stations[i] : i \in 1..Len(stations)} : st.station_id = id

\* E / min(station power, vehicle speed) of a plan, in hours
durationOf(plan) ==
    LET v == vehicleOf(plan.vehicle_id)
        st == stationOf(plan.station_id)
    IN  Div(Num(v.battery_capacity * (90 - v.soc), 100),
            I(IF st.max_power < v.charging_speed THEN st.max_power ELSE v.charging_speed))

\* C1: within one call of optimizeChargingSchedule no two returned plans
\* have the same station_id (the rosters' station ids are distinct).
C1_NoDoubleBooking ==
    \A i, j \in 1..Len(plans) : i # j => plans[i].station_id # plans[j].station_id

\* C1 happens: two plans were returned, and the vehicle of the second one is
\* strictly nearer to the station the first one took than to its own.
C1_Witness ==
    /\ runs > 0
    /\ Len(plans) = 2
    /\ LET v == vehicleOf(plans[2].vehicle_id)
       IN  calculateDistance(v.location, stationOf(plans[1].station_id).location)
             < calculateDistance(v.location, stationOf(plans[2].station_id).location)

\* C2: trip deadlines are met: for every returned plan whose vehicle has a
\* scheduled trip, if charging started at the instant of the run would finish
\* by the departure (now + duration <= departure), the plan's end_time is
\* not later than that departure.
C2_DeadlinesMet ==
    \A k \in 1..Len(plans) :
        LET v == vehicleOf(plans[k].vehicle_id)
        IN  (/\ Len(v.trip_schedule) > 0
             /\ Leq(durationOf(plans[k]),
                    hoursBetween(v.trip_schedule[1].departure, planAt)))
            => plans[k].end_time <= v.trip_schedule[1].departure

\* C3: optimizeChargingSchedule returns no plan for a vehicle whose soc is
\* >= 80, and none for a vehicle whose status is maintenance or in_use.
C3_FilteredGetNoPlan ==
    \A k \in 1..Len(plans) :
        LET v == vehicleOf(plans[k].vehicle_id)
        IN  v.soc < 80 /\ v.status \notin {"maintenance", "in_use"}

\* C3 happens: a run on a fleet with a vehicle at soc >= 80 and a vehicle in
\* maintenance or in use, while a station was available, left them unplanned.
C3_Witness ==
    /\ runs > 0
    /\ \E i \in 1..Len(fleet) : fleet[i].soc >= 80
    /\ \E i \in 1..Len(fleet) : fleet[i].soc < 80 /\ fleet[i].status = "in_use"
    /\ \E i \in 1..Len(stations) : stations[i].available
    /\ plans = <<>>

\* C4: every returned plan has energy_to_charge equal to
\* battery_capacity * (90 - soc) / 100 of its vehicle rounded to one decimal
\* (the tenths are (capacity * (90 - soc) + 5) div 10), and it is > 0.
C4_EnergyToCharge ==
    \A k \in 1..Len(plans) :
        LET v == vehicleOf(plans[k].vehicle_id)
            tenths == (v.battery_capacity * (90 - v.soc) + 5) \div 10
        IN  /\ plans[k].energy_to_charge.n * 10 = tenths * plans[k].energy_to_charge.d
            /\ plans[k].energy_to_charge.n > 0
            /\ plans[k].energy_to_charge.d > 0

\* C4 happens: a plan whose energy needed rounding, 32.13 kWh planned as 32.1
C4_Witness ==
    \E k \in 1..Len(plans) :
        /\ vehicleOf(plans[k].vehicle_id).battery_capacity = 51
        /\ vehicleOf(plans[k].vehicle_id).soc = 27
        /\ plans[k].energy_to_charge = [n |-> 321, d |-> 10]

\* C5: calculatePriority is a function of the vehicle and the instant only,
\* and it returns high for soc < 30 with or without a trip, medium for
\* 30 <= soc < 60 with at least one scheduled trip, and low otherwise.
C5_PriorityTiers ==
    priorityOut.op = "calculatePriority" =>
        LET soc == priorityOut.vehicle.soc
            hasTrip == priorityOut.vehicle.trip_schedule # <<>>
        IN  /\ soc < 30 => priorityOut.result = "high"
            /\ (30 <= soc /\ soc < 60 /\ hasTrip) => priorityOut.result = "medium"
            /\ (soc >= 60 \/ (soc >= 30 /\ ~hasTrip)) => priorityOut.result = "low"

\* C5 happens: a vehicle at exactly 30 % with a trip was classified medium,
\* after the clock had moved
C5_Witness ==
    /\ priorityOut.op = "calculatePriority"
    /\ priorityOut.vehicle.soc = 30
    /\ priorityOut.vehicle.trip_schedule # <<>>
    /\ priorityOut.at > StartInstant
    /\ priorityOut.result = "medium"

\* C6: with the clock frozen and the fleet, station list and price table
\* unchanged, a call of optimizeChargingSchedule that follows another one
\* returns the identical plan list, the same plans in the same order.
C6_Idempotent ==
    [][(runs' = runs + 1 /\ planAt = now) => plans' = plans]_vars

\* C6 happens: two calls at one instant, the second returning two plans
C6_Witness ==
    /\ runs >= 2
    /\ prevAt = planAt
    /\ Len(plans) = 2

\* C7: calculateOptimizationMetrics called with an empty plan list returns
\* a snapshot whose six fields are all 0, for every station list (an empty
\* one included) and every price table.
C7_EmptyPlansAllZero ==
    (metricsIn.op = "calculateOptimizationMetrics" /\ metricsIn.plans = <<>>) =>
        /\ metricsOut.error = "none"
        /\ Len(metricsOut.snapshot) = 1
        /\ \A f \in {"total_energy_cost", "average_charging_time", "station_utilization",
                       "vehicles_optimized", "co2_saved", "cost_savings"} :
               metricsOut.snapshot[1][f] = [n |-> 0, d |-> 1]

\* C7 happens: the call was made with no plan and no station
C7_Witness ==
    /\ metricsIn.op = "calculateOptimizationMetrics"
    /\ metricsIn.plans = <<>>
    /\ metricsIn.stations = <<>>
    /\ metricsOut.error = "none"

\* C8: for every plan list returned by optimizeChargingSchedule the
\* cost_savings computed by calculateOptimizationMetrics is >= 0.
C8_CostSavingsNonNegative ==
    (/\ metricsIn.op = "calculateOptimizationMetrics"
     /\ metricsIn.plans = plans
     /\ metricsOut.error = "none")
    => ~Less(metricsOut.snapshot[1].cost_savings, I(0))

\* C9: calculateOptimizationMetrics called with a non-empty plan list and an
\* empty station list fails with a configuration error instead of returning
\* a metrics snapshot.
C9_EmptyStationsFailFast ==
    (/\ metricsIn.op = "calculateOptimizationMetrics"
     /\ metricsIn.plans # <<>>
     /\ metricsIn.stations = <<>>)
    => (metricsOut.error # "none" /\ metricsOut.snapshot = <<>>)

\* C10: only learn mutates the Q-table: a call of selectAction or
\* recommendStrategy leaves the table exactly as it was, so the number of
\* states learned does not change by asking for a recommendation.
C10_ReadsLeaveTable ==
    [][(SelectAction \/ RecommendStrategy) => qTable' = qTable]_vars

\* the visit counter of entry (stateKey, actionKey); an entry the table does
\* not hold has not been visited
visitsOf(table, stateKey, actionKey) ==
    IF stateKey \in DOMAIN table /\ actionKey \in DOMAIN table[stateKey]
      THEN table[stateKey][actionKey].visits
      ELSE 0

\* the (state key, action key) pairs of the entries of a table
entriesOf(table) == {<<sk, ak>> : sk \in DOMAIN table, ak \in UNION {DOMAIN table[k] : k \in DOMAIN table}}

\* C11: a call learn(s, a, r, s') increases the visit counter of the entry
\* for (s, a) by exactly 1 and changes the visit counter of no other entry;
\* over every agent operation no entry's visit counter decreases.
C11_VisitsCountLearns ==
    [][/\ \A e \in entriesOf(qTable) \cup entriesOf(qTable') :
              visitsOf(qTable', e[1], e[2]) >= visitsOf(qTable, e[1], e[2])
       /\ (agentOut'.op = "learn" /\ Len(rewardHistory') = Len(rewardHistory) + 1) =>
              \A e \in entriesOf(qTable) \cup entriesOf(qTable') :
                  visitsOf(qTable', e[1], e[2]) =
                      visitsOf(qTable, e[1], e[2])
                        + (IF e = <<stateToKey(agentOut'.state), actionToKey(agentOut'.action)>>
                             THEN 1 ELSE 0)]_vars

\* C11 happens: an entry was learned twice while the table holds entries
\* that were only read
C11_Witness ==
    /\ agentOut.op = "learn"
    /\ visitsOf(qTable, stateToKey(agentOut.state), actionToKey(agentOut.action)) = 2
    /\ \E e \in entriesOf(qTable) : visitsOf(qTable, e[1], e[2]) = 0

\* C12: for every content of the Q-table, arbitrarily large positive and
\* negative Q-values included, and for every vehicle, hour, price and
\* availability, recommendStrategy returns a confidence c with 0 <= c <= 1.
C12_ConfidenceInUnitInterval ==
    agentOut.op = "recommendStrategy" =>
        /\ Leq(I(0), agentOut.result.confidence)
        /\ Leq(agentOut.result.confidence, I(1))

\* C12 happens: a recommendation was read from entries of value -1000000
\* and came out with confidence 0
C12_Witness ==
    /\ agentOut.op = "recommendStrategy"
    /\ \A ak \in DOMAIN qTable[stateToKey(agentOut.state)] :
           qTable[stateToKey(agentOut.state)][ak].value = I(-1000000)
    /\ agentOut.result.confidence = I(0)

\* C13: in every state the data service reaches through initialize,
\* runOptimization, manualAssignment and simulateUpdates, every station is
\* available exactly when its occupied_by is empty.
C13_AvailableIffUnoccupied ==
    \A k \in 1..Len(stations) : stations[k].available <=> stations[k].occupied_by = ""

\* C14: after every sequence of runOptimization and manualAssignment calls
\* the data service's plan list holds at most one plan per vehicle_id.
C14_OnePlanPerVehicle ==
    \A i, j \in 1..Len(plans) : i # j => plans[i].vehicle_id # plans[j].vehicle_id

\* C14 happens: the plan the first optimization made for EV-001 (on CS-001,
\* with the distance to it) has been replaced by a manual plan on CS-002
C14_Witness ==
    /\ runs = 1
    /\ Len(plans) = 1
    /\ plans[1].vehicle_id = "EV-001"
    /\ plans[1].station_id = "CS-002"
    /\ plans[1].distance_to_station = I(0)
    /\ metrics.vehicles_optimized = I(1)

\* C15: in every state reached through runOptimization and
\* manualAssignment the stored metrics snapshot is the one derived from the
\* current plan list; in particular metrics.vehicles_optimized is the
\* number of plans in the list.
C15_MetricsOfCurrentPlans ==
    /\ metrics.vehicles_optimized = I(Len(plans))
    /\ LET derived == calculateOptimizationMetrics(plans, stations, pricing)
       IN  derived.error = "none" /\ metrics = derived.snapshot[1]

\* C16: every plan of priority high starts at the instant of the run; every
\* plan of priority medium or low starts at minute 0 of the resolved start
\* hour, on the day of the run when that hour is not earlier than the
\* current hour and on the next day when it is earlier.
C16_StartTimeByPriority ==
    \A k \in 1..Len(plans) :
        LET v == vehicleOf(plans[k].vehicle_id)
            resolved == findOptimalChargingWindow(v, durationOf(plans[k]), pricing, planAt)
            day == planAt \div MsPerDay
        IN  IF plans[k].priority = "high"
              THEN plans[k].start_time = planAt
              ELSE plans[k].start_time =
                       (IF resolved < getHours(planAt) THEN day + 1 ELSE day) * MsPerDay
                         + resolved * MsPerHour

\* C16 happens: one run made a high plan that starts at once and a plan
\* that starts on the next day
C16_Witness ==
    /\ \E k \in 1..Len(plans) :
           plans[k].priority = "high" /\ plans[k].start_time = planAt
    /\ \E k \in 1..Len(plans) :
           /\ plans[k].priority # "high"
           /\ plans[k].start_time \div MsPerDay = (planAt \div MsPerDay) + 1

\* the hours in the order the scan started at hour `from` visits them
scanOrder(from) == [i \in 1..24 |-> (from + i - 1) % 24]

\* C17: findOptimalChargingWindow returns the current hour when the
\* vehicle's next trip departs in less than duration + 2 hours; otherwise it
\* returns, among the 24 start hours scanned forward from the current hour
\* with wrap from 23 to 0, the first one whose cost for a 1 kWh block of the
\* given duration is minimal; in both cases the result is in 0..23.
C17_WindowIsFirstCheapest ==
    callOut.op = "findOptimalChargingWindow" =>
        LET currentHour == getHours(callOut.at)
            trips == callOut.vehicle.trip_schedule
            cost(h) == calculateChargingCost(I(1), h, callOut.durationHours, pricing)
            order == scanOrder(currentHour)
            urgent == /\ trips # <<>>
                      /\ Less(hoursBetween(trips[1].departure, callOut.at),
                              Add(callOut.durationHours, I(2)))
        IN  /\ callOut.result \in 0..23
            /\ urgent => callOut.result = currentHour
            /\ ~urgent =>
                 \E i \in 1..24 :
                     /\ order[i] = callOut.result
                     /\ \A j \in 1..24 : Leq(cost(order[i]), cost(order[j]))
                     /\ \A j \in 1..(i - 1) : Less(cost(order[i]), cost(order[j]))

\* C17 happens: a search that wrapped past midnight to the valley hour 3,
\* and a search cut short by a trip that is near
C17_Witness ==
    /\ callOut.op = "findOptimalChargingWindow"
    /\ \/ /\ pricing = valleyPricing
          /\ getHours(callOut.at) = 10
          /\ callOut.vehicle.trip_schedule = <<>>
          /\ callOut.durationHours = Num(24, 25)
          /\ callOut.result = 3
       \/ /\ pricing = generateEnergyPricing
          /\ getHours(callOut.at) = 10
          /\ callOut.vehicle.trip_schedule = Trip(At(1, 12, 0))
          /\ callOut.result = 10

\* C18: with the standard tiered price table and a vehicle with no urgent
\* trip, findOptimalChargingWindow for a 2-hour charge returns a start hour
\* inside the 22-5 off-peak window, for every current hour 0..23; it never
\* returns a shoulder or peak hour.
C18_TwoHoursGoOffPeak ==
    (/\ callOut.op = "findOptimalChargingWindow"
     /\ pricing = generateEnergyPricing
     /\ callOut.durationHours = I(2)
     /\ \/ callOut.vehicle.trip_schedule = <<>>
        \/ ~Less(hoursBetween(callOut.vehicle.trip_schedule[1].departure, callOut.at),
                 I(4)))
    => /\ callOut.result \in {22, 23, 0, 1, 2, 3, 4, 5}
       /\ pricing[callOut.result + 1].period = "off_peak"

\* C18 happens: the spec's case, a 2-hour charge asked for at hour 10 with
\* no trip, which got hour 22
C18_Witness ==
    /\ callOut.op = "findOptimalChargingWindow"
    /\ pricing = generateEnergyPricing
    /\ callOut.durationHours = I(2)
    /\ callOut.vehicle.trip_schedule = <<>>
    /\ getHours(callOut.at) = 10
    /\ callOut.result = 22

\* C19, as the code has it: for every charging duration d greater than 1
\* hour the per-bucket energies of the hourly cost model total
\* ceil(d) / d times the requested energy (under the one-price table the
\* cost is that energy times the price): there are ceil(d) buckets of
\* energy / d each.
C19_BucketsTotalCeilOverDuration ==
    (/\ callOut.op = "calculateChargingCost"
     /\ pricing = flatPricing
     /\ Less(I(1), callOut.durationHours))
    => callOut.result =
           Mul(Price(15),
               Mul(callOut.energyAmount,
                   Div(I(CeilInt(callOut.durationHours)), callOut.durationHours)))

\* C19 happens: 48 kWh over 30/11 hours, billed as 3 buckets of 17.6 kWh,
\* 52.8 kWh in all at 0.15
C19_Witness ==
    /\ callOut.op = "calculateChargingCost"
    /\ pricing = flatPricing
    /\ callOut.energyAmount = I(48)
    /\ callOut.durationHours = Num(30, 11)
    /\ callOut.result = Num(792, 100)

\* C19 as stated: for every charging duration greater than 1 hour the
\* per-bucket energies total ceil(duration) times the requested energy.
C19_BucketsTotalCeilTimesEnergy ==
    (/\ callOut.op = "calculateChargingCost"
     /\ pricing = flatPricing
     /\ Less(I(1), callOut.durationHours))
    => callOut.result =
           Mul(Price(15),
               Mul(callOut.energyAmount, I(CeilInt(callOut.durationHours))))

\* C20: for every hour in 0..23 and every state of charge in 0..100 the
\* agent's state key uses one of six hour buckets and one of five SoC
\* buckets (with the three price and three availability buckets, at most
\* 6 * 5 * 3 * 3 = 270 keys).
C20_KeyBuckets ==
    callOut.op = "stateToKey" =>
        /\ callOut.result[1] \in 0..5
        /\ callOut.result[2] \in 0..4
        /\ callOut.result[3] \in {"low", "med", "high"}
        /\ callOut.result[4] \in {"low", "med", "high"}

\* the value of entry (stateKey, actionKey); an entry the table does not hold
\* counts as 0, the value getQValue creates it with
valueOf(table, stateKey, actionKey) ==
    IF stateKey \in DOMAIN table /\ actionKey \in DOMAIN table[stateKey]
      THEN table[stateKey][actionKey].value
      ELSE I(0)

\* C21: learn(s, a, r, s') sets the value of entry (s, a) to
\* Q(s,a) + 0.1 * (r + 0.95 * M - Q(s,a)), M being the maximum of Q(s', a')
\* over the 10 actions, with every entry the table does not hold yet counted
\* as 0; the value of every other entry is unchanged, and the ten entries of
\* s' exist afterwards, the created ones with value 0.
C21_LearnRule ==
    [][(agentOut'.op = "learn" /\ Len(rewardHistory') = Len(rewardHistory) + 1) =>
          LET s == stateToKey(agentOut'.state)
              a == actionToKey(agentOut'.action)
              next == stateToKey(agentOut'.nextState)
              nextKeys == {actionToKey(getPossibleActions(agentOut'.nextState)[k]) :
                              k \in 1..10}
              Q == valueOf(qTable, s, a)
              nextValues == {valueOf(qTable, next, ak) : ak \in nextKeys}
              M == CHOOSE m \in nextValues : \A v \in nextValues : Leq(v, m)
          IN  /\ Cardinality(nextKeys) = 10
              /\ qTable'[s][a].value =
                     Add(Q, Mul(Num(1, 10),
                                Sub(Add(agentOut'.reward, Mul(Num(95, 100), M)), Q)))
              /\ \A sk \in DOMAIN qTable :
                     sk \in DOMAIN qTable' /\ DOMAIN qTable[sk] \subseteq DOMAIN qTable'[sk]
              /\ \A sk \in DOMAIN qTable' : \A ak \in DOMAIN qTable'[sk] :
                     <<sk, ak>> # <<s, a>> =>
                         qTable'[sk][ak].value = valueOf(qTable, sk, ak)
              /\ \A ak \in nextKeys : ak \in DOMAIN qTable'[next]]_vars

\* C21 happens: a first learn with reward 25 left 2.5, and a second learn of
\* the same entry with the same state as next state, where M is that 2.5,
\* left 2.5 + 0.1 * (25 + 0.95 * 2.5 - 2.5) = 4.9875
C21_Witness ==
    /\ agentOut.op = "learn"
    /\ agentOut.nextState = agentOut.state
    /\ rewardHistory = <<I(25), I(25)>>
    /\ visitsOf(qTable, stateToKey(agentOut.state), actionToKey(agentOut.action)) = 2
    /\ valueOf(qTable, stateToKey(agentOut.state), actionToKey(agentOut.action))
         = Num(399, 80)

\* C22: each plan's station is flagged available, and it is at most as far
\* from the vehicle as every available station that no earlier plan of the
\* same run took; among equally near ones it is the first in the station
\* list.
C22_NearestFreeStation ==
    \A k \in 1..Len(plans) :
        LET v == vehicleOf(plans[k].vehicle_id)
            taken == {plans[i].station_id : i \in 1..(k - 1)}
            own == CHOOSE j \in 1..Len(stations) :
                       stations[j].station_id = plans[k].station_id
            far(j) == calculateDistance(v.location, stations[j].location)
        IN  /\ stations[own].available
            /\ \A j \in 1..Len(stations) :
                   (stations[j].available /\ stations[j].station_id \notin taken)
                   => /\ far(own) <= far(j)
                      /\ far(own) = far(j) => own <= j

\* C22 happens: the first vehicle, half way between two free stations, got
\* the first of the list, and the second vehicle got the station left while
\* the one the first plan took is nearer to it
C22_Witness ==
    /\ runs > 0
    /\ Len(plans) = 2
    /\ Len(stations) = 2
    /\ stations[1].available /\ stations[2].available
    /\ plans[1].station_id = stations[1].station_id
    /\ LET v == vehicleOf(plans[1].vehicle_id)
       IN  calculateDistance(v.location, stations[1].location)
             = calculateDistance(v.location, stations[2].location)
    /\ LET v == vehicleOf(plans[2].vehicle_id)
       IN  calculateDistance(v.location, stations[1].location)
             < calculateDistance(v.location, stations[2].location)

\* C23: stations are handed out in priority order: in one run, when an
\* eligible vehicle (soc < 80, status idle or charging, positive energy
\* need) gets no plan, no eligible vehicle of strictly lower priority gets
\* one, and no eligible vehicle of equal priority later in the fleet list
\* gets one.
C23_PriorityOrderServed ==
    LET eligible(i) == /\ fleet[i].soc < 80
                       /\ fleet[i].status \in {"idle", "charging"}
                       /\ Less(I(0), energyNeeded(fleet[i]))
        planned(i) == \E k \in 1..Len(plans) : plans[k].vehicle_id = fleet[i].vehicle_id
        rank(i) == priorityOrder(calculatePriority(fleet[i], planAt))
    IN  runs > 0 =>
          \A i, j \in 1..Len(fleet) :
              (eligible(i) /\ ~planned(i) /\ eligible(j) /\ planned(j))
              => /\ rank(j) >= rank(i)
                 /\ rank(j) = rank(i) => j < i

\* C23 happens: with one station for two eligible vehicles, the later one
\* in the fleet list, of higher priority, has the plan
C23_Witness ==
    /\ runs > 0
    /\ Len(fleet) = 2
    /\ Len(plans) = 1
    /\ needsCharge(fleet[1])
    /\ plans[1].vehicle_id = fleet[2].vehicle_id
    /\ priorityOrder(calculatePriority(fleet[2], planAt))
         > priorityOrder(calculatePriority(fleet[1], planAt))

\* C24: a call of optimizeChargingSchedule does not modify its inputs: the
\* station list is as before in every field of every station (available,
\* occupied_by and current_usage among them), and the fleet list has the
\* same order and every vehicle the same field values.
C24_InputsUntouched ==
    [][runs' = runs + 1 => (stations' = stations /\ fleet' = fleet)]_vars

\* C24 happens: a run reserved two stations and served the second vehicle
\* of the fleet list first; both stations are still flagged available and
\* unoccupied, and the fleet list still has the less urgent vehicle first
C24_Witness ==
    /\ runs > 0
    /\ Len(plans) = 2
    /\ Len(fleet) = 2
    /\ plans[1].vehicle_id = fleet[2].vehicle_id
    /\ priorityOrder(calculatePriority(fleet[1], planAt))
         < priorityOrder(calculatePriority(fleet[2], planAt))
    /\ \A k \in 1..Len(plans) :
           /\ stationOf(plans[k].station_id).available
           /\ stationOf(plans[k].station_id).occupied_by = ""

\* C25: every call of optimizeChargingSchedule on a finite fleet, a finite
\* station list and a 24-entry price table terminates and returns a plan
\* list, whatever the stations' max_power and the vehicles' charging_speed
\* are, 0 included.
C25_EveryCallReturns ==
    (callOut.op = "optimizeChargingSchedule")
      ~> (callOut.op = "optimizeChargingSchedule" /\ callOut.pc = "returned")

\* C26: after every sequence of runOptimization and manualAssignment calls
\* no two plans of the data service's plan list have the same station_id.
C26_NoStationTwice ==
    \A i, j \in 1..Len(plans) : i # j => plans[i].station_id # plans[j].station_id

\* C27: every plan in the data service's plan list, made by runOptimization
\* or by manualAssignment for an existing vehicle and station, has
\* energy_to_charge > 0 and an end_time not earlier than its start_time.
C27_PlansChargeForward ==
    \A k \in 1..Len(plans) :
        /\ Less(I(0), plans[k].energy_to_charge)
        /\ plans[k].end_time >= plans[k].start_time

\* C28: when the agent is trained only by the data service's training loop
\* (every learn call has shouldCharge = true and targetSoC = 90), the
\* branch of selectAction that does not explore never returns the
\* do-not-charge action, so recommendStrategy answers shouldCharge = false
\* only on the exploring branch.
C28_ExploitAlwaysCharges ==
    (agentOut.op = "recommendStrategy" /\ ~agentOut.explore)
    => agentOut.result.shouldCharge

\* C28 happens: the recommendation was asked without exploring in a state
\* the training loop has visited, once where the learned value is positive
\* and once where it is negative (and every other action is still at 0)
C28_Witness ==
    /\ agentOut.op = "recommendStrategy"
    /\ ~agentOut.explore
    /\ agentOut.result.shouldCharge
    /\ \E e \in entriesOf(qTable) :
           /\ e[1] = stateToKey(agentOut.state)
           /\ visitsOf(qTable, e[1], e[2]) >= 1
           /\ Less(valueOf(qTable, e[1], e[2]), I(0))
    /\ \E sk \in DOMAIN qTable : \E ak \in DOMAIN qTable[sk] :
           qTable[sk][ak].visits >= 1 /\ Less(I(0), qTable[sk][ak].value)

\* C29: for every plan optimizeChargingSchedule returns, estimated_cost is
\* the hourly cost model evaluated from the hour of day of the plan's own
\* start_time, for every priority tier.
C29_CostPricedAtStartHour ==
    \A k \in 1..Len(plans) :
        plans[k].estimated_cost =
            RoundTo(calculateChargingCost(energyNeeded(vehicleOf(plans[k].vehicle_id)),
                                          getHours(plans[k].start_time),
                                          durationOf(plans[k]), pricing), 100)

\* C30: every plan optimizeChargingSchedule returns has a start_time at or
\* after the instant of the run: no plan of any priority starts in the past.
C30_NoStartInThePast ==
    \A k \in 1..Len(plans) : plans[k].start_time >= planAt

====
